---------------------------- MODULE Spec2Model ----------------------------
(***************************************************************************)
(* A model of yoink (src/src/lib.rs): the install ledger with its advisory *)
(* file lock, the ledger's JSON document, and asset selection.             *)
(*                                                                         *)
(* Every invocation of the program is a separate operating-system process: *)
(* each process of Procs runs one invocation.                              *)
(***************************************************************************)
EXTENDS Integers, Sequences, FiniteSets, TLC

\* ------------------------------------------------------------------ bounds
\* The number of invocations (processes) of one behaviour.
NumProcs == 2

Procs == 1..NumProcs
NoProc == 0

\* ------------------------------------------------------- the ledger's data
\* Project keys, in the order a BTreeMap<String, _> iterates them.
KeyOrder == <<"mxcl/tool", "mxcl/yoink">>
KeySet == {KeyOrder[i] : i \in 1..Len(KeyOrder)}
Versions == {"v1", "v2"}
Paths == {"/bin/tool", "/bin/helper"}

\* struct InstallEntry { version, bin, bins }
InstallEntry(version, bin, bins) == [version |-> version, bin |-> bin, bins |-> bins]

\* InstallEntry::all_bins: the primary, then the extras.
all_bins(entry) == <<entry.bin>> \o entry.bins

\* InstallState::default(): no installs.
EmptyInstalls == [k \in {} |-> InstallEntry("", "", <<>>)]

\* BTreeMap::insert: the entry of key is replaced, the others stay.
MapInsert(installs, key, entry) ==
    [k \in (DOMAIN installs) \cup {key} |-> IF k = key THEN entry ELSE installs[k]]

\* BTreeMap::remove: the entry of key goes, the others stay.
MapRemove(installs, key) ==
    [k \in (DOMAIN installs) \ {key} |-> installs[k]]

\* ------------------------------------------------- the ledger's JSON text
\* The document is a sequence of JSON tokens; indentation is left out.  A
\* "key" token is an object key with its colon, a "str" token a string value.
Tok(t, v) == [t |-> t, v |-> v]
LBrace == Tok("{", "")
RBrace == Tok("}", "")
LBrack == Tok("[", "")
RBrack == Tok("]", "")
Comma == Tok(",", "")
Newline == Tok("nl", "")
Space == Tok("ws", "")
Eof == Tok("eof", "")
JKey(name) == Tok("key", name)
JStr(s) == Tok("str", s)

\* Vec<PathBuf> as a JSON array.
RECURSIVE SerPaths(_)
SerPaths(paths) ==
    IF paths = <<>> THEN <<>>
    ELSE <<JStr(Head(paths))>>
         \o (IF Tail(paths) = <<>> THEN <<>> ELSE <<Comma>>)
         \o SerPaths(Tail(paths))

\* derive(Serialize) for InstallEntry: "bins" is skipped when it is empty.
SerEntry(entry) ==
    <<LBrace, JKey("version"), JStr(entry.version), Comma, JKey("bin"), JStr(entry.bin)>>
    \o (IF entry.bins = <<>> THEN <<>>
        ELSE <<Comma, JKey("bins"), LBrack>> \o SerPaths(entry.bins) \o <<RBrack>>)
    \o <<RBrace>>

\* The entries of the map from the i-th key on, in key order.
RECURSIVE SerInstalls(_, _, _)
SerInstalls(installs, i, first) ==
    IF i > Len(KeyOrder) THEN <<>>
    ELSE IF KeyOrder[i] \in DOMAIN installs
         THEN (IF first THEN <<>> ELSE <<Comma>>)
              \o <<JKey(KeyOrder[i])>> \o SerEntry(installs[KeyOrder[i]])
              \o SerInstalls(installs, i + 1, FALSE)
         ELSE SerInstalls(installs, i + 1, first)

\* serde_json::to_writer_pretty(file, state) of write_state_locked.
ToWriterPretty(installs) ==
    <<LBrace, JKey("installs"), LBrace>> \o SerInstalls(installs, 1, TRUE) \o <<RBrace, RBrace>>

\* Everything write_state_locked writes after the truncation: the document,
\* then the newline.
StateBytes(installs) == ToWriterPretty(installs) \o <<Newline>>

\* ---- reading
TokAt(doc, i) == IF i >= 1 /\ i <= Len(doc) THEN doc[i] ELSE Eof
POk(pos, val) == [ok |-> TRUE, pos |-> pos, val |-> val]
PFail == [ok |-> FALSE, pos |-> 0, val |-> <<>>]

\* A JSON array of strings, from the token after "[".
RECURSIVE ParsePathElems(_, _, _)
ParsePathElems(doc, i, acc) ==
    IF TokAt(doc, i).t # "str" THEN PFail
    ELSE IF TokAt(doc, i + 1).t = "," THEN ParsePathElems(doc, i + 2, Append(acc, doc[i].v))
    ELSE IF TokAt(doc, i + 1).t = "]" THEN POk(i + 2, Append(acc, doc[i].v))
    ELSE PFail

ParsePaths(doc, i) ==
    IF TokAt(doc, i).t # "[" THEN PFail
    ELSE IF TokAt(doc, i + 1).t = "]" THEN POk(i + 2, <<>>)
    ELSE ParsePathElems(doc, i + 1, <<>>)

\* derive(Deserialize) for InstallEntry, from the token after "{": version
\* and bin are required, bins defaults to empty, a field given twice is an
\* error.  seen holds each field read so far as a sequence of length one.
\* #[serde(default)] on bins: a missing "bins" field reads as the empty list.
\* (A field without the attribute would read as no value: a parse error.)
DefaultBins_None == <<>>
DefaultBins == << <<>> >>

RECURSIVE ParseEntryFields(_, _, _)
EntryFieldsEnd(doc, i, seen) ==
    LET bins == IF seen.bins = <<>> THEN DefaultBins ELSE seen.bins IN
    IF TokAt(doc, i).t = "," THEN ParseEntryFields(doc, i + 1, seen)
    ELSE IF TokAt(doc, i).t = "}"
         THEN IF seen.version = <<>> \/ seen.bin = <<>> \/ bins = <<>> THEN PFail
              ELSE POk(i + 1, InstallEntry(seen.version[1], seen.bin[1], bins[1]))
    ELSE PFail

ParseEntryFields(doc, i, seen) ==
    LET tok == TokAt(doc, i) IN
    IF tok.t # "key" THEN PFail
    ELSE IF tok.v = "version"
         THEN IF seen.version # <<>> \/ TokAt(doc, i + 1).t # "str" THEN PFail
              ELSE EntryFieldsEnd(doc, i + 2, [seen EXCEPT !.version = <<doc[i + 1].v>>])
    ELSE IF tok.v = "bin"
         THEN IF seen.bin # <<>> \/ TokAt(doc, i + 1).t # "str" THEN PFail
              ELSE EntryFieldsEnd(doc, i + 2, [seen EXCEPT !.bin = <<doc[i + 1].v>>])
    ELSE IF tok.v = "bins"
         THEN LET r == ParsePaths(doc, i + 1) IN
              IF seen.bins # <<>> \/ ~r.ok THEN PFail
              ELSE EntryFieldsEnd(doc, r.pos, [seen EXCEPT !.bins = <<r.val>>])
    ELSE PFail

ParseEntry(doc, i) ==
    IF TokAt(doc, i).t # "{" THEN PFail
    ELSE ParseEntryFields(doc, i + 1, [version |-> <<>>, bin |-> <<>>, bins |-> <<>>])

\* BTreeMap<String, InstallEntry>, from the token after "{".
RECURSIVE ParseInstallsElems(_, _, _)
ParseInstallsElems(doc, i, acc) ==
    IF TokAt(doc, i).t # "key" THEN PFail
    ELSE LET r == ParseEntry(doc, i + 1) IN
         IF ~r.ok THEN PFail
         ELSE IF TokAt(doc, r.pos).t = ","
              THEN ParseInstallsElems(doc, r.pos + 1, MapInsert(acc, doc[i].v, r.val))
         ELSE IF TokAt(doc, r.pos).t = "}"
              THEN POk(r.pos + 1, MapInsert(acc, doc[i].v, r.val))
         ELSE PFail

ParseInstalls(doc, i) ==
    IF TokAt(doc, i).t # "{" THEN PFail
    ELSE IF TokAt(doc, i + 1).t = "}" THEN POk(i + 2, EmptyInstalls)
    ELSE ParseInstallsElems(doc, i + 1, EmptyInstalls)

IsBlank(tok) == tok.t \in {"nl", "ws"}

\* buf.trim().is_empty()
TrimIsEmpty(doc) == \A i \in 1..Len(doc) : IsBlank(doc[i])

\* serde_json::from_str::<InstallState>: one object, whose "installs" field
\* defaults to empty, followed by white space only.
FromStr(doc) ==
    LET body == IF TokAt(doc, 1).t # "{" THEN PFail
                ELSE IF TokAt(doc, 2).t = "}" THEN POk(3, EmptyInstalls)
                ELSE IF TokAt(doc, 2) # JKey("installs") THEN PFail
                ELSE LET r == ParseInstalls(doc, 3) IN
                     IF r.ok /\ TokAt(doc, r.pos).t = "}" THEN POk(r.pos + 1, r.val)
                     ELSE PFail
    IN IF body.ok /\ \A j \in body.pos..Len(doc) : IsBlank(doc[j])
       THEN body ELSE PFail

\* read_state_locked: the whole file is read; blank text is the default state.
read_state_locked(doc) ==
    IF TrimIsEmpty(doc) THEN POk(0, EmptyInstalls) ELSE FromStr(doc)

\* ------------------------------------------------------------- the state
VARIABLES
    file,       \* the ledger file: [exists, content], content a token sequence
    lockX,      \* the process holding the exclusive advisory lock, or NoProc
    lockS,      \* the processes holding the shared advisory lock
    disk,       \* what each installed path is: "none", "file", "dir", "symlink"
    denied,     \* the paths the filesystem refuses to delete (PermissionDenied)
    pc,         \* each process's position in its invocation
    inv,        \* each process's invocation: [op, key, version, bins]
    st,         \* each process's in-memory InstallState (`state`)
    todo,       \* remove_install: the paths of the entry still to delete
    wbuf,       \* write_state_locked: the tokens still to write
    result,     \* each process's outcome
    seen,       \* history: the installs an invocation read under its lock
    committed,  \* history: the last completely written document
    serial,     \* history: the mutations so far, applied one at a time in lock order
    contended,  \* history: whether the invocation found the lock taken
    deleted     \* history: the paths each invocation has deleted

\* Reading and writing one ledger file, with no other process about.
VARIABLES
    rtPhase,    \* "idle", "start", "written", "read" or "loaded"
    rtState,    \* the InstallState to write
    rtFile,     \* the file: [exists, content]
    rtOut       \* what was read back

rtVars == <<rtPhase, rtState, rtFile, rtOut>>

\* One call of pick_asset.
VARIABLES
    hostOs,     \* env::consts::OS of the build
    hostArch,   \* env::consts::ARCH of the build
    assets,     \* the release's assets, in the server's order
    picked      \* pick_asset's result, once it has run

pickVars == <<hostOs, hostArch, assets, picked>>

\* One call of find_binaries.
VARIABLES
    fbRoot,     \* the scratch directory the archive was extracted into
    fbRepo,     \* repo_name
    fbWalk,     \* the entries under the root, in the order the walk yields them
    fbOut       \* find_binaries' result, once it has run

findVars == <<fbRoot, fbRepo, fbWalk, fbOut>>

\* One call of extract_gzip, as prepare_binary makes it.
VARIABLES
    gzAsset,    \* the asset's name, which is the download's file name
    gzRepo,     \* repo_name
    gzPc,       \* "start", "create", "decode", "choose" or "done"
    gzDest,     \* dest_name
    gzScratch,  \* the entries of the scratch directory
    gzOut,      \* extract_gzip's result
    gzLocated   \* history: whether find_binaries was called

gzVars == <<gzAsset, gzRepo, gzPc, gzDest, gzScratch, gzOut, gzLocated>>

\* One invocation of the program that goes through prepare_binary, or lists.
VARIABLES
    iop,        \* the operation: "install", "download", "run", "info", "list"
    ipc,        \* the invocation's position
    prep,       \* the PreparedBinary
    installed_bins, \* installed_bins (download_to_dir: downloaded)
    rest,       \* the extras still to go through
    att,        \* the last direct attempt at a mkdir or a copy
    nops,       \* history: the mkdirs and copies attempted so far
    helperLog,  \* history: the attempts after which sudo was run
    iresult,    \* the invocation's outcome
    file0       \* history: the ledger file when the invocation started

instVars == <<iop, ipc, prep, installed_bins, rest, att, nops, helperLog, iresult, file0>>

\* A sequence of whole operations into one install directory, one process
\* at a time.
VARIABLES
    oLedger,    \* the ledger's installs
    oDisk,      \* what each path of the install directory is
    oLatest,    \* the tag of each project's latest release
    oCopied,    \* history: the paths an install has copied a file to
    oSteps,     \* history: the operations so far
    oLast       \* history: the last operation: [op, key, deleted]

opsVars == <<oLedger, oDisk, oLatest, oCopied, oSteps, oLast>>

\* One upgrade_all, run by process 1 next to the ledger's other processes.
VARIABLES
    upc,        \* upgrade_all's position
    urepos,     \* repos: the keys still to go through
    uupgrades,  \* upgrades: the summaries so far
    uresult,    \* upgrade_all's outcome
    uinstalls0  \* history: the ledger when upgrade_all started

upVars == <<upc, urepos, uupgrades, uresult, uinstalls0>>

\* The variables of the install pipeline, of its parts and of the
\* operations built on it.
moreVars == <<findVars, gzVars, instVars, opsVars, upVars>>

\* The variables the ledger's actions leave alone.
notLedgerVars == <<rtVars, pickVars, moreVars>>

ledgerVars == <<file, lockX, lockS, disk, denied, pc, inv, st, todo, wbuf, result,
                seen, committed, serial, contended, deleted>>

Kinds == {"none", "file", "dir", "symlink"}

Invocation(op, key, version, bins) == [op |-> op, key |-> key, version |-> version, bins |-> bins]
NoInvocation == Invocation("none", "", "", <<>>)

\* What a process can be asked to do: record_install(repo, version, bins),
\* remove_install(repo), load_state().
Invocations ==
    { Invocation("record", "mxcl/tool", "v2", <<"/bin/tool", "/bin/helper">>),
      Invocation("record", "mxcl/yoink", "v2", <<"/bin/helper">>),
      Invocation("record", "mxcl/yoink", "v2", <<>>),
      Invocation("remove", "mxcl/tool", "", <<>>),
      Invocation("remove", "mxcl/yoink", "", <<>>),
      Invocation("load", "", "", <<>>) }

\* The ledgers a behaviour can start from.
InitialInstalls ==
    { EmptyInstalls,
      MapInsert(EmptyInstalls, "mxcl/tool", InstallEntry("v1", "/bin/tool", <<"/bin/helper">>)),
      MapInsert(MapInsert(EmptyInstalls, "mxcl/tool", InstallEntry("v1", "/bin/tool", <<>>)),
                "mxcl/yoink", InstallEntry("v1", "/bin/helper", <<>>)) }

\* The installed paths a behaviour can start from: the tool is anything, the
\* helper a regular file or missing.
InitialDisks == {d \in [Paths -> Kinds] : d["/bin/helper"] \in {"none", "file"}}

NoFile == [exists |-> FALSE, content |-> <<>>]
FileOf(content) == [exists |-> TRUE, content |-> content]

\* No file, a zero-byte file, or a written ledger.
InitialFiles ==
    {NoFile, FileOf(<<>>)}
    \cup {FileOf(StateBytes(m)) : m \in InitialInstalls \ {EmptyInstalls}}

\* ------------------------------------------------------ the advisory lock
\* file.lock_exclusive() blocks while any other lock is held on the file.
CanLockExclusive_NoWait(p) == TRUE
CanLockExclusive(p) == lockX = NoProc /\ lockS = {}

\* file.lock_shared() blocks while the exclusive lock is held.
CanLockShared_NoWait(p) == TRUE
CanLockShared(p) == lockX = NoProc

\* file.unlock(), and the close of the file when it is dropped.
Released_Held(p) == lockX
Released(p) == IF lockX = p THEN NoProc ELSE lockX

\* ---------------------------------------------------------- the file system
\* The call remove_install chooses for a path.
RemoveCall(kind) ==
    IF kind = "symlink" THEN "remove_file"
    ELSE IF kind = "dir" THEN "remove_dir_all"
    ELSE "remove_file"

\* What the file system answers to that call.
RemovePath(path) ==
    IF path \notin DOMAIN disk \/ disk[path] = "none" THEN "NotFound"
    ELSE IF path \in denied THEN "PermissionDenied"
    ELSE IF RemoveCall(disk[path]) = "remove_file" /\ disk[path] = "dir" THEN "IsADirectory"
    ELSE IF RemoveCall(disk[path]) = "remove_dir_all" /\ disk[path] = "file" THEN "NotADirectory"
    ELSE "Ok"

\* Err(err) if err.kind() == io::ErrorKind::NotFound => {}
Swallowed_None(err) == FALSE
Swallowed_All(err) == TRUE
Swallowed(err) == err = "NotFound"

\* state.installs.remove(repo): the entry, if there is one.
TakeEntry_OrDefault(installs, key) ==
    IF key \in DOMAIN installs THEN <<installs[key]>> ELSE <<InstallEntry("", "", <<>>)>>
TakeEntry(installs, key) ==
    IF key \in DOMAIN installs THEN <<installs[key]>> ELSE <<>>

\* record_install's update of the state it read.
RecordInsert_KeepExisting(installs, key, version, bins) ==
    IF key \in DOMAIN installs THEN installs
    ELSE MapInsert(installs, key, InstallEntry(version, Head(bins), Tail(bins)))
RecordInsert(installs, key, version, bins) ==
    MapInsert(installs, key, InstallEntry(version, Head(bins), Tail(bins)))


\* ------------------------------------------------------------ strings
\* A string is the sequence of its characters.
UpperCase == <<"A", "B", "C", "D", "E", "F", "G", "H", "I", "J", "K", "L", "M",
               "N", "O", "P", "Q", "R", "S", "T", "U", "V", "W", "X", "Y", "Z">>
LowerCase == <<"a", "b", "c", "d", "e", "f", "g", "h", "i", "j", "k", "l", "m",
               "n", "o", "p", "q", "r", "s", "t", "u", "v", "w", "x", "y", "z">>

\* str::to_lowercase
to_lowercase(str) ==
    [i \in 1..Len(str) |->
        IF \E n \in 1..Len(UpperCase) : UpperCase[n] = str[i]
        THEN LowerCase[CHOOSE n \in 1..Len(UpperCase) : UpperCase[n] = str[i]]
        ELSE str[i]]

\* str::ends_with
ends_with(str, suffix) ==
    /\ Len(suffix) <= Len(str)
    /\ SubSeq(str, Len(str) - Len(suffix) + 1, Len(str)) = suffix

\* str::contains
contains(str, pattern) ==
    \E i \in 1..(Len(str) - Len(pattern) + 1) : SubSeq(str, i, i + Len(pattern) - 1) = pattern

\* contains_any(haystack, tokens)
contains_any_All(haystack, tokens) ==
    \A n \in 1..Len(tokens) : contains(haystack, tokens[n])
contains_any(haystack, tokens) ==
    \E n \in 1..Len(tokens) : contains(haystack, tokens[n])

\* ------------------------------------------------------- asset selection
\* os_tokens(): the tokens of the host operating system.
OsTokens_macos == <<<<"d", "a", "r", "w", "i", "n">>, <<"m", "a", "c", "o", "s">>, <<"o", "s", "x">>, <<"m", "a", "c">>, <<"a", "p", "p", "l", "e", "-", "d", "a", "r", "w", "i", "n">>>>
OsTokens_linux == <<<<"l", "i", "n", "u", "x">>, <<"g", "n", "u">>, <<"u", "n", "k", "n", "o", "w", "n", "-", "l", "i", "n", "u", "x">>>>
OsTokens_windows == <<<<"w", "i", "n", "d", "o", "w", "s">>, <<"w", "i", "n">>, <<"m", "i", "n", "g", "w">>, <<"m", "s", "v", "c">>>>
OsTokens_freebsd == <<<<"f", "r", "e", "e", "b", "s", "d">>>>
os_tokens ==
    IF hostOs = "macos" THEN OsTokens_macos
    ELSE IF hostOs = "linux" THEN OsTokens_linux
    ELSE IF hostOs = "windows" THEN OsTokens_windows
    ELSE OsTokens_freebsd

\* arch_tokens(): the tokens of the host architecture.
ArchTokens_x86_64 == <<<<"x", "8", "6", "_", "6", "4">>, <<"a", "m", "d", "6", "4">>, <<"x", "6", "4">>>>
ArchTokens_aarch64 == <<<<"a", "a", "r", "c", "h", "6", "4">>, <<"a", "r", "m", "6", "4">>>>
ArchTokens_arm == <<<<"a", "r", "m", "v", "7">>, <<"a", "r", "m", "v", "7", "l">>, <<"a", "r", "m", "v", "6">>, <<"a", "r", "m">>>>
ArchTokens_riscv64 == <<<<"r", "i", "s", "c", "v", "6", "4">>>>
arch_tokens ==
    IF hostArch = "x86_64" THEN ArchTokens_x86_64
    ELSE IF hostArch = "aarch64" THEN ArchTokens_aarch64
    ELSE IF hostArch = "arm" THEN ArchTokens_arm
    ELSE ArchTokens_riscv64

\* The hosts of the model; "freebsd" and "riscv64" stand for the hosts whose
\* only token is their own name.
HostOses == {"macos", "linux", "windows", "freebsd"}
HostArchs == {"x86_64", "aarch64", "arm", "riscv64"}

Sfx_sha256 == <<".", "s", "h", "a", "2", "5", "6">>
Sfx_sha256sum == <<".", "s", "h", "a", "2", "5", "6", "s", "u", "m">>
Sfx_sha512 == <<".", "s", "h", "a", "5", "1", "2">>
Sfx_sig == <<".", "s", "i", "g">>
Sfx_asc == <<".", "a", "s", "c">>
Sfx_md5 == <<".", "m", "d", "5">>
Str_checksum == <<"c", "h", "e", "c", "k", "s", "u", "m">>
Str_checksums == <<"c", "h", "e", "c", "k", "s", "u", "m", "s">>
Str_sbom == <<"s", "b", "o", "m">>
Sfx_zip == <<".", "z", "i", "p">>
Sfx_tar_gz == <<".", "t", "a", "r", ".", "g", "z">>
Sfx_tgz == <<".", "t", "g", "z">>
Sfx_tar_xz == <<".", "t", "a", "r", ".", "x", "z">>
Sfx_tar_bz2 == <<".", "t", "a", "r", ".", "b", "z", "2">>
Sfx_gz == <<".", "g", "z">>
Sfx_exe == <<".", "e", "x", "e">>

\* is_ignored_asset: check sums, signatures, hashes and SBOMs.
is_ignored_asset(name) ==
    LET lower == to_lowercase(name) IN
    \/ ends_with(lower, Sfx_sha256)
    \/ ends_with(lower, Sfx_sha256sum)
    \/ ends_with(lower, Sfx_sha512)
    \/ ends_with(lower, Sfx_sig)
    \/ ends_with(lower, Sfx_asc)
    \/ ends_with(lower, Sfx_md5)
    \/ contains(lower, Str_checksum)
    \/ contains(lower, Str_checksums)
    \/ contains(lower, Str_sbom)

\* is_archive_name
is_archive_name(name) ==
    LET lower == to_lowercase(name) IN
    \/ ends_with(lower, Sfx_zip)
    \/ ends_with(lower, Sfx_tar_gz)
    \/ ends_with(lower, Sfx_tgz)
    \/ ends_with(lower, Sfx_tar_xz)
    \/ ends_with(lower, Sfx_tar_bz2)

\* is_gzip_name
is_gzip_name(name) ==
    LET lower == to_lowercase(name) IN
    ends_with(lower, Sfx_gz) /\ ~ends_with(lower, Sfx_tar_gz)

\* asset_score(name, os_tokens, arch_tokens)
asset_score(name, osTokens, archTokens) ==
    LET lower == to_lowercase(name) IN
    (IF contains_any(lower, osTokens) THEN 2 ELSE 0)
    + (IF contains_any(lower, archTokens) THEN 2 ELSE 0)
    + (IF is_archive_name(lower) THEN 1 ELSE 0)
    + (IF ends_with(lower, Sfx_exe) THEN 1 ELSE 0)

\* struct Asset { name, browser_download_url }
Asset(name, url) == [name |-> name, browser_download_url |-> url]
NoAsset == Asset(<<>>, 0)

\* pick_asset's candidates: the assets that are not ignored, or all of them
\* when every one is ignored.
Candidates_NoFilter(list) == list
Candidates(list) ==
    LET kept == SelectSeq(list, LAMBDA a : ~is_ignored_asset(a.name)) IN
    IF kept = <<>> THEN list ELSE kept

\* best.map(|(_, best_score)| score > best_score).unwrap_or(true); best is
\* an Option: a sequence of length at most one.
Replaces_UnwrapOrFalse(best, score) == IF best = <<>> THEN FALSE ELSE score > best[1].score
Replaces_GreaterOrEqual(best, score) == IF best = <<>> THEN TRUE ELSE score >= best[1].score
Replaces(best, score) == IF best = <<>> THEN TRUE ELSE score > best[1].score

\* pick_asset's loop over the candidates, from the i-th on.
RECURSIVE BestOf(_, _, _)
BestOf(candidates, i, best) ==
    IF i > Len(candidates) THEN best
    ELSE LET score == asset_score(candidates[i].name, os_tokens, arch_tokens) IN
         BestOf(candidates, i + 1,
                IF Replaces(best, score)
                THEN <<[asset |-> candidates[i], score |-> score]>>
                ELSE best)

PickOk(asset) == [status |-> "ok", asset |-> asset, err |-> ""]
PickErr(err) == [status |-> "err", asset |-> NoAsset, err |-> err]
NotPicked == [status |-> "none", asset |-> NoAsset, err |-> ""]

\* pick_asset(assets)
pick_asset(list) ==
    IF list = <<>> THEN PickErr("release has no assets")
    ELSE LET best == BestOf(Candidates(list), 1, <<>>) IN
         IF best = <<>> THEN PickErr("no suitable assets") ELSE PickOk(best[1].asset)

\* The asset names of the model.
Name_tool == <<"t", "o", "o", "l">>
Name_linux_tgz == <<"t", "o", "o", "l", "-", "l", "i", "n", "u", "x", "-", "x", "8", "6", "_", "6", "4", ".", "t", "a", "r", ".", "g", "z">>
Name_linux_tgz_sha == <<"t", "o", "o", "l", "-", "l", "i", "n", "u", "x", "-", "x", "8", "6", "_", "6", "4", ".", "t", "a", "r", ".", "g", "z", ".", "s", "h", "a", "2", "5", "6">>
Name_darwin_zip == <<"t", "o", "o", "l", "-", "d", "a", "r", "w", "i", "n", "-", "a", "r", "m", "6", "4", ".", "z", "i", "p">>
Name_sig == <<"t", "o", "o", "l", ".", "s", "i", "g">>
Name_checksums == <<"c", "h", "e", "c", "k", "s", "u", "m", "s", ".", "t", "x", "t">>
Name_windows_exe == <<"T", "o", "o", "l", "-", "W", "i", "n", "d", "o", "w", "s", "-", "x", "6", "4", ".", "E", "X", "E">>
Name_linux_amd64 == <<"t", "o", "o", "l", "-", "l", "i", "n", "u", "x", "-", "a", "m", "d", "6", "4">>
AssetNames ==
    {Name_tool,
     Name_linux_tgz,
     Name_linux_tgz_sha,
     Name_darwin_zip,
     Name_sig,
     Name_checksums,
     Name_windows_exe,
     Name_linux_amd64}

\* The longest asset list of the model.
MaxAssets == 3

\* The asset lists of the model: the n-th asset's URL is n.
AssetLists ==
    UNION {{[i \in 1..n |-> Asset(f[i], i)] : f \in [1..n -> AssetNames]} : n \in 0..MaxAssets}

\* ------------------------------------------- writing and reading a ledger
\* The longest list of extra binaries of the model.
MaxExtras == 2

PathLists == UNION {[1..n -> Paths] : n \in 0..MaxExtras}
Entries == {InstallEntry(v, b, bs) : v \in Versions, b \in Paths, bs \in PathLists}

\* Every InstallState over the keys, versions and paths of the model.
InstallStates == UNION {[ks -> Entries] : ks \in SUBSET KeySet}

\* The files that hold no ledger yet: no file, a zero-byte file, white space.
BlankFiles == {NoFile, FileOf(<<>>), FileOf(<<Newline>>), FileOf(<<Space, Newline, Space>>)}

\* load_state on a file nobody else has open.
load_state(f) ==
    IF ~f.exists THEN POk(0, EmptyInstalls) ELSE read_state_locked(f.content)

\* write_state_locked on a file nobody else has open: truncate, then write
\* the document and the newline.
write_state_locked(f, installs) == FileOf(StateBytes(installs))

\* --------------------------------------------------------- locating binaries
\* A path is the sequence of its components, each a string; an entry of a
\* directory tree is a path and what it is: "file", "dir" or "symlink".
Entry(path, kind) == [path |-> path, kind |-> kind]

\* path.to_string_lossy().len(): every component follows a separator.
RECURSIVE PathLen(_)
PathLen(path) ==
    IF path = <<>> THEN 0 ELSE 1 + Len(Head(path)) + PathLen(Tail(path))

\* path.file_name(): the last component, if there is one (an Option: a
\* sequence of length at most one).
file_name(path) == IF path = <<>> THEN <<>> ELSE <<path[Len(path)]>>

\* str::starts_with
starts_with(str, prefix) ==
    /\ Len(prefix) <= Len(str)
    /\ SubSeq(str, 1, Len(prefix)) = prefix

\* str::eq_ignore_ascii_case
eq_ignore_ascii_case(a, b) == Len(a) = Len(b) /\ to_lowercase(a) = to_lowercase(b)

\* path_has_component(path, needle)
path_has_component(path, needle) ==
    \E n \in 1..Len(path) : eq_ignore_ascii_case(path[n], needle)

\* Path::new(&name).extension(): what follows the last dot of the name,
\* unless there is no dot or the only dot is the first character.
Extension(name) ==
    LET dots == {i \in 1..Len(name) : name[i] = "."} IN
    IF dots = {} THEN <<>>
    ELSE LET last == CHOOSE i \in dots : \A j \in dots : j <= i IN
         IF last = 1 THEN <<>> ELSE <<SubSeq(name, last + 1, Len(name))>>

Pfx_dot == <<".">>
Pfx_readme == <<"r", "e", "a", "d", "m", "e">>
Pfx_license == <<"l", "i", "c", "e", "n", "s", "e">>
Pfx_changelog == <<"c", "h", "a", "n", "g", "e", "l", "o", "g">>
Pfx_notice == <<"n", "o", "t", "i", "c", "e">>
Pfx_copying == <<"c", "o", "p", "y", "i", "n", "g">>
Dir_bin == <<"b", "i", "n">>
Dir_share == <<"s", "h", "a", "r", "e">>
Dir_doc == <<"d", "o", "c">>
Dir_docs == <<"d", "o", "c", "s">>
Dir_man == <<"m", "a", "n">>
Dir_completions == <<"c", "o", "m", "p", "l", "e", "t", "i", "o", "n", "s">>
Dir_completion == <<"c", "o", "m", "p", "l", "e", "t", "i", "o", "n">>
IgnoredExtensions ==
    {<<"m", "d">>,
     <<"t", "x", "t">>,
     <<"r", "s", "t">>,
     <<"j", "s", "o", "n">>,
     <<"y", "a", "m", "l">>,
     <<"y", "m", "l">>,
     <<"t", "o", "m", "l">>,
     <<"i", "n", "i">>,
     <<"c", "f", "g">>,
     <<"c", "o", "n", "f">>,
     <<"1">>,
     <<"2">>,
     <<"3">>,
     <<"4">>,
     <<"5">>,
     <<"6">>,
     <<"7">>,
     <<"8">>,
     <<"9">>,
     <<"a", "s", "c">>,
     <<"s", "i", "g">>,
     <<"s", "h", "a", "2", "5", "6">>,
     <<"s", "h", "a", "5", "1", "2">>,
     <<"m", "d", "5">>}

\* is_probable_binary_candidate(path)
is_probable_binary_candidate(path) ==
    IF file_name(path) = <<>> THEN FALSE
    ELSE LET name == to_lowercase(file_name(path)[1]) IN
         IF \/ starts_with(name, Pfx_dot)
            \/ starts_with(name, Pfx_readme)
            \/ starts_with(name, Pfx_license)
            \/ starts_with(name, Pfx_changelog)
            \/ starts_with(name, Pfx_notice)
            \/ starts_with(name, Pfx_copying)
         THEN FALSE
         ELSE IF \/ path_has_component(path, Dir_share)
                 \/ path_has_component(path, Dir_doc)
                 \/ path_has_component(path, Dir_docs)
                 \/ path_has_component(path, Dir_man)
                 \/ path_has_component(path, Dir_completions)
                 \/ path_has_component(path, Dir_completion)
         THEN FALSE
         ELSE IF /\ Extension(name) # <<>>
                 /\ to_lowercase(Extension(name)[1]) \in IgnoredExtensions
         THEN FALSE
         ELSE TRUE

\* binary_name(repo_name): cfg!(windows) is the build's target.
binary_name(repo_name) ==
    IF hostOs = "windows" THEN repo_name \o Sfx_exe ELSE repo_name

\* sort_by_key(|path| path.to_string_lossy().len()), then remove(0): the
\* sort is stable, so the first of the shortest paths comes out.
FirstWalked(paths) == paths[1]
ShortestFirst(paths) ==
    LET short == {i \in 1..Len(paths) : \A j \in 1..Len(paths) : PathLen(paths[i]) <= PathLen(paths[j])}
    IN paths[CHOOSE i \in short : \A j \in short : i <= j]

\* Vec::sort_by_key(|path| path.to_string_lossy().len()): a stable sort.
RECURSIVE InsertByLen(_, _)
InsertByLen(sorted, path) ==
    IF sorted = <<>> THEN <<path>>
    ELSE IF PathLen(path) < PathLen(Head(sorted)) THEN <<path>> \o sorted
    ELSE <<Head(sorted)>> \o InsertByLen(Tail(sorted), path)
RECURSIVE SortByLen(_)
SortByLen(paths) ==
    IF paths = <<>> THEN <<>>
    ELSE InsertByLen(SortByLen(SubSeq(paths, 1, Len(paths) - 1)), paths[Len(paths)])

\* find_binaries' extras: the probable matches other than the primary,
\* sorted by length.
Extras_KeepPrimary(probable_matches, primary) == SortByLen(probable_matches)
Extras(probable_matches, primary) ==
    IF probable_matches = <<>> THEN <<>>
    ELSE SortByLen(SelectSeq(probable_matches, LAMBDA path : path # primary))

\* bin_matches.len() == 1
NarrowedToOne_AtLeastOne(bin_matches) == Len(bin_matches) >= 1
NarrowedToOne(bin_matches) == Len(bin_matches) = 1

\* candidates.len() == 1
SingleCandidate_Any(candidates) == Len(candidates) >= 1
SingleCandidate(candidates) == Len(candidates) = 1

FoundOk(primary, extras) == [status |-> "ok", primary |-> primary, extras |-> extras, err |-> ""]
FoundErr(err) == [status |-> "err", primary |-> <<>>, extras |-> <<>>, err |-> err]
NotFoundYet == [status |-> "none", primary |-> <<>>, extras |-> <<>>, err |-> ""]

\* find_binaries(root, repo_name); walked is what WalkDir::new(root) yields,
\* in the order it yields it.
find_binaries(walked, repo_name) ==
    LET target == to_lowercase(binary_name(repo_name))
        fallback == to_lowercase(repo_name)
        files == SelectSeq(walked, LAMBDA e : e.kind = "file")
        candidates == [n \in 1..Len(files) |-> files[n].path]
        NameOf(path) == to_lowercase(IF file_name(path) = <<>> THEN <<>> ELSE file_name(path)[1])
        exact_matches == SelectSeq(candidates, LAMBDA path : NameOf(path) = target \/ NameOf(path) = fallback)
        probable_matches == SelectSeq(candidates, is_probable_binary_candidate)
        bin_matches == SelectSeq(probable_matches, LAMBDA path : path_has_component(path, Dir_bin))
        primary ==
            IF Len(exact_matches) = 1 THEN <<exact_matches[1]>>
            ELSE IF Len(exact_matches) > 1 THEN <<ShortestFirst(exact_matches)>>
            ELSE IF Len(probable_matches) = 1 THEN <<probable_matches[1]>>
            ELSE IF Len(probable_matches) > 1
                 THEN IF NarrowedToOne(bin_matches) THEN <<bin_matches[1]>>
                      ELSE <<ShortestFirst(probable_matches)>>
            ELSE IF SingleCandidate(candidates) THEN <<candidates[1]>>
            ELSE <<>>
    IN IF primary = <<>> THEN FoundErr("unable to locate extracted binary")
       ELSE FoundOk(primary[1], Extras(probable_matches, primary[1]))

\* The scratch roots, the repository names and the trees of the model.
Root_tmp == <<<<"t", "m", "p">>, <<"x">>>>
Root_bin == <<<<"s", "r", "v">>, <<"b", "i", "n">>, <<"x">>>>
Roots == {Root_tmp, Root_bin}
Repo_yoink == <<"y", "o", "i", "n", "k">>
Repo_Tool == <<"T", "o", "o", "l">>
RepoNames == {Repo_yoink, Repo_Tool}
Rel_yoink == <<<<"y", "o", "i", "n", "k">>>>
Rel_bin_yoink == <<<<"b", "i", "n">>, <<"y", "o", "i", "n", "k">>>>
Rel_pkg_Yoink_exe == <<<<"p", "k", "g">>, <<"Y", "o", "i", "n", "k", ".", "e", "x", "e">>>>
Rel_bin_tool == <<<<"b", "i", "n">>, <<"t", "o", "o", "l">>>>
Rel_alt_tool == <<<<"a", "l", "t">>, <<"t", "o", "o", "l">>>>
Rel_helper == <<<<"h", "e", "l", "p", "e", "r">>>>
Rel_notes_txt == <<<<"n", "o", "t", "e", "s", ".", "t", "x", "t">>>>
Rel_share_yoink == <<<<"s", "h", "a", "r", "e">>, <<"y", "o", "i", "n", "k">>>>
Rel_lnk_yoink == <<<<"l", "n", "k">>, <<"y", "o", "i", "n", "k">>>>
TreeEntries ==
    {Entry(Rel_yoink, "file"),
     Entry(Rel_bin_yoink, "file"),
     Entry(Rel_pkg_Yoink_exe, "file"),
     Entry(Rel_bin_tool, "file"),
     Entry(Rel_alt_tool, "file"),
     Entry(Rel_helper, "file"),
     Entry(Rel_notes_txt, "file"),
     Entry(Rel_share_yoink, "file"),
     Entry(Rel_lnk_yoink, "symlink")}

\* The most entries of a tree of the model (directories aside).
MaxEntries == 3

\* What a walk can yield: the entries of a tree, each once, in the order
\* the directories list them, which the file system chooses.
Walks ==
    UNION {{w \in [1..n -> TreeEntries] : \A i, j \in 1..n : i # j => w[i] # w[j]} : n \in 0..MaxEntries}

\* WalkDir::new(root): every entry's path is under root.
WalkDir(root, walk) ==
    <<Entry(root, "dir")>> \o [n \in 1..Len(walk) |-> Entry(root \o walk[n].path, walk[n].kind)]

\* ------------------------------------------------------------ the history
\* The ledger after mutation i is applied, alone, to installs: a record with
\* bins puts its entry in; a remove takes the entry out when every path of
\* the entry can be deleted or is missing; anything else changes nothing.
SerialApply(i, installs) ==
    IF i.op = "record" /\ i.bins # <<>>
    THEN [k \in (DOMAIN installs) \cup {i.key} |->
            IF k = i.key THEN [version |-> i.version, bin |-> Head(i.bins), bins |-> Tail(i.bins)]
            ELSE installs[k]]
    ELSE IF /\ i.op = "remove"
            /\ i.key \in DOMAIN installs
            /\ LET paths == <<installs[i.key].bin>> \o installs[i.key].bins IN
               \A n \in 1..Len(paths) : disk[paths[n]] = "none" \/ paths[n] \notin denied
    THEN [k \in (DOMAIN installs) \ {i.key} |-> installs[k]]
    ELSE installs

\* ------------------------------------------------------------ the actions
InitLedger ==
    /\ file \in InitialFiles
    /\ lockX = NoProc
    /\ lockS = {}
    /\ disk \in InitialDisks
    /\ denied \in SUBSET {path \in {"/bin/helper"} : disk[path] # "none"}
    /\ pc = [p \in Procs |-> "idle"]
    /\ inv = [p \in Procs |-> NoInvocation]
    /\ st = [p \in Procs |-> EmptyInstalls]
    /\ todo = [p \in Procs |-> <<>>]
    /\ wbuf = [p \in Procs |-> <<>>]
    /\ result = [p \in Procs |-> "none"]
    /\ seen = [p \in Procs |-> EmptyInstalls]
    /\ committed = file.content
    /\ serial = read_state_locked(file.content).val
    /\ contended = [p \in Procs |-> FALSE]
    /\ deleted = [p \in Procs |-> {}]

Running(p) == pc[p] \notin {"idle", "done"}

\* The process returns: its locals are gone.
Return(p, outcome) ==
    /\ pc' = [pc EXCEPT ![p] = "done"]
    /\ result' = [result EXCEPT ![p] = outcome]
    /\ st' = [st EXCEPT ![p] = EmptyInstalls]
    /\ todo' = [todo EXCEPT ![p] = <<>>]
    /\ wbuf' = [wbuf EXCEPT ![p] = <<>>]
    /\ seen' = [seen EXCEPT ![p] = EmptyInstalls]

\* The next process starts: nothing of it shows before its first step.
Starts(p, i) ==
    /\ pc[p] = "idle"
    /\ \A q \in Procs : q < p => pc[q] # "idle"
    /\ inv' = [inv EXCEPT ![p] = i]

\* record_install: OpenOptions ... create(true).open(&state_path)
RecordOpen(p) ==
    /\ \E i \in Invocations : i.op = "record" /\ Starts(p, i)
    /\ file' = FileOf(file.content)
    /\ pc' = [pc EXCEPT ![p] = "lock"]
    /\ result' = [result EXCEPT ![p] = "running"]
    /\ UNCHANGED <<lockX, lockS, disk, denied, st, todo, wbuf, seen,
                   committed, serial, contended, deleted,
                   notLedgerVars>>

\* remove_install: bail when the file does not exist, else open it.
RemoveOpen(p) ==
    /\ \E i \in Invocations : i.op = "remove" /\ Starts(p, i)
    /\ IF file.exists
       THEN /\ pc' = [pc EXCEPT ![p] = "lock"]
            /\ result' = [result EXCEPT ![p] = "running"]
            /\ UNCHANGED <<st, todo, wbuf, seen>>
       ELSE Return(p, "NoInstalls")
    /\ UNCHANGED <<file, lockX, lockS, disk, denied, committed, serial, contended, deleted,
                   notLedgerVars>>

\* load_state: the default state when the file does not exist, else open it.
LoadOpen(p) ==
    /\ \E i \in Invocations : i.op = "load" /\ Starts(p, i)
    /\ IF file.exists
       THEN /\ pc' = [pc EXCEPT ![p] = "lock"]
            /\ result' = [result EXCEPT ![p] = "running"]
            /\ UNCHANGED <<st, todo, wbuf, seen>>
       ELSE Return(p, "Ok")
    /\ UNCHANGED <<file, lockX, lockS, disk, denied, committed, serial, contended, deleted,
                   notLedgerVars>>

\* file.lock_exclusive() of record_install and remove_install.
LockExclusive(p) ==
    /\ pc[p] = "lock" /\ inv[p].op \in {"record", "remove"}
    /\ CanLockExclusive(p)
    /\ lockX' = p
    /\ serial' = SerialApply(inv[p], serial)
    /\ contended' = [q \in Procs |-> contended[q] \/ (q # p /\ pc[q] = "lock")]
    /\ pc' = [pc EXCEPT ![p] = "read"]
    /\ UNCHANGED <<file, lockS, disk, denied, inv, st, todo, wbuf, result, seen,
                   committed, deleted,
                   notLedgerVars>>

\* file.lock_shared() of load_state.
LockShared(p) ==
    /\ pc[p] = "lock" /\ inv[p].op = "load"
    /\ CanLockShared(p)
    /\ lockS' = lockS \cup {p}
    /\ pc' = [pc EXCEPT ![p] = "read"]
    /\ UNCHANGED <<file, lockX, disk, denied, inv, st, todo, wbuf, result, seen,
                   committed, serial, contended, deleted,
                   notLedgerVars>>

\* record_install: read the state, split the bins, insert the entry.  An
\* error returns through `?`: the file is dropped, which releases the lock.
RecordRead(p) ==
    /\ pc[p] = "read" /\ inv[p].op = "record"
    /\ LET r == read_state_locked(file.content) IN
       IF ~r.ok
       THEN /\ Return(p, "ParseError")
            /\ lockX' = Released(p)
       ELSE IF inv[p].bins = <<>>
       THEN /\ Return(p, "EmptyInstallSet")
            /\ lockX' = Released(p)
       ELSE /\ st' = [st EXCEPT ![p] =
                        RecordInsert(r.val, inv[p].key, inv[p].version, inv[p].bins)]
            /\ seen' = [seen EXCEPT ![p] = r.val]
            /\ pc' = [pc EXCEPT ![p] = "trunc"]
            /\ UNCHANGED <<lockX, todo, wbuf, result>>
    /\ UNCHANGED <<file, lockS, disk, denied, inv, committed, serial, contended, deleted,
                   notLedgerVars>>

\* remove_install: read the state, take the entry out of it.
RemoveRead(p) ==
    /\ pc[p] = "read" /\ inv[p].op = "remove"
    /\ LET r == read_state_locked(file.content)
           entry == TakeEntry(r.val, inv[p].key) IN
       IF ~r.ok
       THEN /\ Return(p, "ParseError")
            /\ lockX' = Released(p)
       ELSE IF entry = <<>>
       THEN /\ Return(p, "NotInstalled")
            /\ lockX' = Released(p)
       ELSE /\ st' = [st EXCEPT ![p] = MapRemove(r.val, inv[p].key)]
            /\ seen' = [seen EXCEPT ![p] = r.val]
            /\ todo' = [todo EXCEPT ![p] = all_bins(entry[1])]
            /\ pc' = [pc EXCEPT ![p] = "del"]
            /\ UNCHANGED <<lockX, wbuf, result>>
    /\ UNCHANGED <<file, lockS, disk, denied, inv, committed, serial, contended, deleted,
                   notLedgerVars>>

\* remove_install: one turn of the loop over entry.all_bins().
RemoveBin(p) ==
    /\ pc[p] = "del"
    /\ LET bin == Head(todo[p])
           res == RemovePath(bin) IN
       IF res = "Ok" \/ Swallowed(res)
       THEN /\ disk' = IF res = "Ok" THEN [disk EXCEPT ![bin] = "none"] ELSE disk
            /\ deleted' = IF res = "Ok" THEN [deleted EXCEPT ![p] = @ \cup {bin}] ELSE deleted
            /\ todo' = [todo EXCEPT ![p] = Tail(todo[p])]
            /\ pc' = [pc EXCEPT ![p] = IF Tail(todo[p]) = <<>> THEN "trunc" ELSE "del"]
       ELSE /\ pc' = [pc EXCEPT ![p] = "abort"]
            /\ UNCHANGED <<disk, todo, deleted>>
    /\ UNCHANGED <<file, lockX, lockS, denied, inv, st, wbuf, result, seen,
                   committed, serial, contended,
                   notLedgerVars>>

\* remove_install: file.unlock(), then return the error of the removal.
RemoveAbort(p) ==
    /\ pc[p] = "abort"
    /\ lockX' = Released(p)
    /\ Return(p, "RemoveFailed")
    /\ UNCHANGED <<file, lockS, disk, denied, inv, committed, serial, contended, deleted,
                   notLedgerVars>>

\* write_state_locked: file.set_len(0), file.seek(Start(0)).
Truncate(p) ==
    /\ pc[p] = "trunc"
    /\ file' = FileOf(<<>>)
    /\ wbuf' = [wbuf EXCEPT ![p] = StateBytes(st[p])]
    /\ pc' = [pc EXCEPT ![p] = "write"]
    /\ UNCHANGED <<lockX, lockS, disk, denied, inv, st, todo, result, seen,
                   committed, serial, contended, deleted,
                   notLedgerVars>>

\* write_state_locked: to_writer_pretty and write_all(b"\n") write straight
\* to the file, a piece at a time.
WriteToken(p) ==
    /\ pc[p] = "write"
    /\ file' = FileOf(Append(file.content, Head(wbuf[p])))
    /\ wbuf' = [wbuf EXCEPT ![p] = Tail(wbuf[p])]
    /\ IF Tail(wbuf[p]) = <<>>
       THEN /\ pc' = [pc EXCEPT ![p] = "sync"]
            /\ committed' = file'.content
       ELSE UNCHANGED <<pc, committed>>
    /\ UNCHANGED <<lockX, lockS, disk, denied, inv, st, todo, result, seen,
                   serial, contended, deleted,
                   notLedgerVars>>

\* write_state_locked: file.sync_all().
Sync(p) ==
    /\ pc[p] = "sync"
    /\ pc' = [pc EXCEPT ![p] = "unlock"]
    /\ UNCHANGED <<file, lockX, lockS, disk, denied, inv, st, todo, wbuf, result,
                   seen, committed, serial, contended, deleted,
                   notLedgerVars>>

\* record_install, remove_install: file.unlock(), Ok(()).
Unlock(p) ==
    /\ pc[p] = "unlock" /\ inv[p].op \in {"record", "remove"}
    /\ lockX' = Released(p)
    /\ Return(p, "Ok")
    /\ UNCHANGED <<file, lockS, disk, denied, inv, committed, serial, contended, deleted,
                   notLedgerVars>>

\* load_state: read the state under the shared lock.
LoadRead(p) ==
    /\ pc[p] = "read" /\ inv[p].op = "load"
    /\ LET r == read_state_locked(file.content) IN
       IF ~r.ok
       THEN /\ Return(p, "ParseError")
            /\ lockS' = lockS \ {p}
       ELSE /\ st' = [st EXCEPT ![p] = r.val]
            /\ pc' = [pc EXCEPT ![p] = "unlock"]
            /\ UNCHANGED <<lockS, todo, wbuf, result, seen>>
    /\ UNCHANGED <<file, lockX, disk, denied, inv, committed, serial, contended, deleted,
                   notLedgerVars>>

\* load_state: file.unlock(), Ok(state).
LoadUnlock(p) ==
    /\ pc[p] = "unlock" /\ inv[p].op = "load"
    /\ lockS' = lockS \ {p}
    /\ Return(p, "Ok")
    /\ UNCHANGED <<file, lockX, disk, denied, inv, committed, serial, contended, deleted,
                   notLedgerVars>>

\* The operating system kills the process: its file is closed, which
\* releases whatever lock it held.
Kill(p) ==
    /\ Running(p)
    /\ lockX' = Released(p)
    /\ lockS' = lockS \ {p}
    /\ Return(p, "killed")
    /\ UNCHANGED <<file, disk, denied, inv, committed, serial, contended, deleted,
                   notLedgerVars>>

\* A call on the ledger file fails (lock, read_to_string, set_len, seek,
\* write, sync_all, unlock): the error returns through `?`, the file is
\* dropped and with it whatever lock it held.
IoError(p) ==
    /\ pc[p] \in {"lock", "read", "trunc", "write", "sync", "unlock", "abort"}
    /\ lockX' = Released(p)
    /\ lockS' = lockS \ {p}
    /\ Return(p, "IoError")
    /\ UNCHANGED <<file, disk, denied, inv, committed, serial, contended, deleted,
                   notLedgerVars>>

vars == <<ledgerVars, rtVars, pickVars, moreVars>>

\* ---- writing and reading one ledger file
RtIdle ==
    /\ rtPhase = "idle"
    /\ rtState = EmptyInstalls
    /\ rtFile = NoFile
    /\ rtOut = PFail

\* write_state_locked(&mut file, &state)
RtWrite ==
    /\ rtPhase = "start"
    /\ rtFile' = write_state_locked(rtFile, rtState)
    /\ rtPhase' = "written"
    /\ UNCHANGED <<rtState, rtOut, ledgerVars, pickVars, moreVars>>

\* read_state_locked(&mut file) of the file just written
RtRead ==
    /\ rtPhase = "written"
    /\ rtOut' = read_state_locked(rtFile.content)
    /\ rtPhase' = "read"
    /\ UNCHANGED <<rtState, rtFile, ledgerVars, pickVars, moreVars>>

\* load_state() of a file never written
RtLoad ==
    /\ rtPhase = "start"
    /\ rtOut' = load_state(rtFile)
    /\ rtPhase' = "loaded"
    /\ UNCHANGED <<rtState, rtFile, ledgerVars, pickVars, moreVars>>

\* ---- one call of pick_asset
PickIdle ==
    /\ hostOs = "linux"
    /\ hostArch = "x86_64"
    /\ assets = <<>>
    /\ picked = NotPicked

\* resolve_release_info: pick_asset(&release.assets)
Pick ==
    /\ picked = NotPicked
    /\ picked' = pick_asset(assets)
    /\ UNCHANGED <<hostOs, hostArch, assets, ledgerVars, rtVars, moreVars>>

\* ---- one call of find_binaries
FindIdle ==
    /\ fbRoot = Root_tmp
    /\ fbRepo = Repo_yoink
    /\ fbWalk = <<>>
    /\ fbOut = NotFoundYet

\* extract_archive: find_binaries(extract_root, repo_name)
Locate ==
    /\ fbOut = NotFoundYet
    /\ fbOut' = find_binaries(WalkDir(fbRoot, fbWalk), fbRepo)
    /\ UNCHANGED <<fbRoot, fbRepo, fbWalk, ledgerVars, rtVars, pickVars, gzVars, instVars, opsVars, upVars>>

\* ---------------------------------------------------- a single gzipped file
\* str::trim_end_matches(pat): the pattern is taken off the end as often as
\* it is there.
RECURSIVE trim_end_matches(_, _)
trim_end_matches(str, pat) ==
    IF pat # <<>> /\ ends_with(str, pat)
    THEN trim_end_matches(SubSeq(str, 1, Len(str) - Len(pat)), pat)
    ELSE str

\* extract_gzip: dest_name == repo_name
FastPath_IgnoreCase(dest_name, repo_name) == to_lowercase(dest_name) = to_lowercase(repo_name)
FastPath(dest_name, repo_name) == dest_name = repo_name

\* The asset names and the repository names of the model.
Gz_tool_gz == <<"t", "o", "o", "l", ".", "g", "z">>
Gz_TOOL_GZ == <<"T", "O", "O", "L", ".", "G", "Z">>
Gz_tool_gz_gz == <<"t", "o", "o", "l", ".", "g", "z", ".", "g", "z">>
Gz_yoink_gz == <<"y", "o", "i", "n", "k", ".", "g", "z">>
Gz_notes_txt_gz == <<"n", "o", "t", "e", "s", ".", "t", "x", "t", ".", "g", "z">>
Gz_dot_gz == <<".", "g", "z">>
Gz_tool_tar_gz == <<"t", "o", "o", "l", ".", "t", "a", "r", ".", "g", "z">>
Gz_tool == <<"t", "o", "o", "l">>
GzAssetNames ==
    {Gz_tool_gz, Gz_TOOL_GZ, Gz_tool_gz_gz, Gz_yoink_gz, Gz_notes_txt_gz, Gz_dot_gz,
     Gz_tool_tar_gz, Gz_tool}
Repo_tool == <<"t", "o", "o", "l">>
GzRepoNames == {Repo_tool, Repo_yoink, Repo_Tool}

GzIdle ==
    /\ gzAsset = Gz_tool
    /\ gzRepo = Repo_tool
    /\ gzPc = "done"
    /\ gzDest = <<>>
    /\ gzScratch = <<>>
    /\ gzOut = NotFoundYet
    /\ gzLocated = FALSE

\* prepare_binary: an asset that is no archive and has a gzip name goes to
\* extract_gzip, which names the output after the download.
GzClassify ==
    /\ gzPc = "start"
    /\ IF ~is_archive_name(gzAsset) /\ is_gzip_name(gzAsset)
       THEN /\ gzDest' = trim_end_matches(gzAsset, Sfx_gz)
            /\ gzPc' = "create"
       ELSE /\ gzPc' = "done"
            /\ UNCHANGED gzDest
    /\ UNCHANGED <<gzAsset, gzRepo, gzScratch, gzOut, gzLocated,
                   ledgerVars, rtVars, pickVars, findVars, instVars, opsVars, upVars>>

\* extract_gzip: File::open(gzip_path), File::create(extract_root.join(dest_name));
\* joining the empty name gives the directory itself, which cannot be created
\* as a file.
GzCreate ==
    /\ gzPc = "create"
    /\ IF gzDest = <<>>
       THEN /\ gzOut' = FoundErr("create")
            /\ gzPc' = "done"
            /\ UNCHANGED gzScratch
       ELSE /\ gzScratch' = <<Entry(<<gzDest>>, "file")>>
            /\ gzPc' = "decode"
            /\ UNCHANGED gzOut
    /\ UNCHANGED <<gzAsset, gzRepo, gzDest, gzLocated,
                   ledgerVars, rtVars, pickVars, findVars, instVars, opsVars, upVars>>

\* extract_gzip: io::copy(&mut decoder, &mut output)
GzDecode ==
    /\ gzPc = "decode"
    /\ \E ok \in BOOLEAN :
          IF ok THEN gzPc' = "choose" /\ UNCHANGED gzOut
          ELSE gzPc' = "done" /\ gzOut' = FoundErr("write")
    /\ UNCHANGED <<gzAsset, gzRepo, gzDest, gzScratch, gzLocated,
                   ledgerVars, rtVars, pickVars, findVars, instVars, opsVars, upVars>>

\* extract_gzip: the file itself when it has the repository's name, else
\* what find_binaries makes of the scratch directory.
GzChoose ==
    /\ gzPc = "choose"
    /\ IF FastPath(gzDest, gzRepo)
       THEN /\ gzOut' = FoundOk(Root_tmp \o <<gzDest>>, <<>>)
            /\ UNCHANGED gzLocated
       ELSE /\ gzOut' = find_binaries(WalkDir(Root_tmp, gzScratch), gzRepo)
            /\ gzLocated' = TRUE
    /\ gzPc' = "done"
    /\ UNCHANGED <<gzAsset, gzRepo, gzDest, gzScratch,
                   ledgerVars, rtVars, pickVars, findVars, instVars, opsVars, upVars>>

\* ------------------------------------------------------ the install pipeline
\* One invocation of install, download_to_dir, run, release_info or
\* list_installs, run by process 1 with no other process about.
InstallOps == {"install", "download", "run", "info", "list"}

\* The project installed, and the tag of its latest release.
InstallRepo == "mxcl/tool"
ReleaseTag == "v2"

\* The file name of a prepared path; NoName is file_name() = None.
NoName == ""
BinNames == {"tool", "helper"}

\* install_dir.join(name)
DestOf(name) == IF name = "tool" THEN "/bin/tool" ELSE "/bin/helper"

\* PreparedBinary: the payload and the extras, each known by its file name.
PreparedBinary(path, extra_paths, tag) == [path |-> path, extra_paths |-> extra_paths, tag |-> tag]
NoPrepared == PreparedBinary(NoName, <<>>, "")
PreparedBinaries ==
    {PreparedBinary(path, extras, ReleaseTag) :
        path \in BinNames \cup {NoName},
        extras \in UNION {[1..n -> BinNames \cup {NoName}] : n \in 0..MaxExtras}}

\* The errors of a file-system call, as the pipeline tells them apart.
IoOutcomes == {"Ok", "PermissionDenied", "Other"}

\* is_permission_denied(&err)
is_permission_denied_AnyError(err) == err # "Ok"
is_permission_denied(err) == err = "PermissionDenied"

\* What a call of install_with_sudo or create_dir_with_sudo comes to: sudo
\* ran and succeeded, sudo ran and failed, or sudo was not run (not a unix
\* build, or set_executable of the payload failed).
SudoOutcomes == IF hostOs = "windows" THEN {"NotRun"} ELSE {"Ok", "Failed", "NotRun"}

\* Whether the operation ends with record_install.
RecordsInstall_Always(op) == TRUE
RecordsInstall(op) == op = "install"

NoAttempt == [id |-> 0, kind |-> "none", dest |-> "", err |-> "none"]
Attempt(id, kind, dest, err) == [id |-> id, kind |-> kind, dest |-> dest, err |-> err]

InstIdle ==
    /\ iop = "none"
    /\ ipc = "done"
    /\ prep = NoPrepared
    /\ installed_bins = <<>>
    /\ rest = <<>>
    /\ att = NoAttempt
    /\ nops = 0
    /\ helperLog = <<>>
    /\ iresult = "none"
    /\ file0 = NoFile

\* The invocation returns.
IReturn(outcome) ==
    /\ ipc' = "done"
    /\ iresult' = outcome

\* main: the operation asked for.
InstStart ==
    /\ ipc = "idle"
    /\ \E op \in InstallOps :
          /\ iop' = op
          /\ ipc' = IF op = "list" THEN "load" ELSE "resolve"
    /\ iresult' = "running"
    /\ UNCHANGED <<prep, installed_bins, rest, att, nops, helperLog, file0,
                   ledgerVars, rtVars, pickVars, findVars, gzVars, opsVars, upVars>>

\* prepare_binary / release_info: parse_repo, github_client and
\* resolve_release_info; release_info returns what they give.
Resolve ==
    /\ ipc = "resolve"
    /\ \E ok \in BOOLEAN :
          IF ~ok THEN IReturn("ResolveFailed")
          ELSE IF iop = "info" THEN IReturn("Ok")
          ELSE ipc' = "download" /\ UNCHANGED iresult
    /\ UNCHANGED <<iop, prep, installed_bins, rest, att, nops, helperLog, file0,
                   ledgerVars, rtVars, pickVars, findVars, gzVars, opsVars, upVars>>

\* prepare_binary: tempdir, download_asset.
Download ==
    /\ ipc = "download"
    /\ \E ok \in BOOLEAN :
          IF ok THEN ipc' = "extract" /\ UNCHANGED iresult
          ELSE IReturn("DownloadFailed")
    /\ UNCHANGED <<iop, prep, installed_bins, rest, att, nops, helperLog, file0,
                   ledgerVars, rtVars, pickVars, findVars, gzVars, opsVars, upVars>>

\* prepare_binary: extract_archive or extract_gzip unpack the asset (an
\* asset that is neither is the payload as it is).
Extract ==
    /\ ipc = "extract"
    /\ \E ok \in BOOLEAN :
          IF ok THEN ipc' = "locate" /\ UNCHANGED iresult
          ELSE IReturn("ExtractFailed")
    /\ UNCHANGED <<iop, prep, installed_bins, rest, att, nops, helperLog, file0,
                   ledgerVars, rtVars, pickVars, findVars, gzVars, opsVars, upVars>>

\* prepare_binary: find_binaries gives the payload and the extras, or fails.
LocatePayload ==
    /\ ipc = "locate"
    /\ \/ /\ IReturn("LocateFailed")
          /\ UNCHANGED <<prep, rest>>
       \/ \E prepared \in PreparedBinaries :
             /\ prep' = prepared
             /\ rest' = prepared.extra_paths
             /\ ipc' = IF iop = "install" THEN "installdir"
                       ELSE IF iop = "download" THEN "mkdir"
                       ELSE "exec"
             /\ UNCHANGED iresult
    /\ UNCHANGED <<iop, installed_bins, att, nops, helperLog, file0,
                   ledgerVars, rtVars, pickVars, findVars, gzVars, opsVars, upVars>>

\* run: set_executable, Command::status.
Exec ==
    /\ ipc = "exec"
    /\ \E ok \in BOOLEAN : IReturn(IF ok THEN "Ok" ELSE "RunFailed")
    /\ UNCHANGED <<iop, prep, installed_bins, rest, att, nops, helperLog, file0,
                   ledgerVars, rtVars, pickVars, findVars, gzVars, opsVars, upVars>>

\* install_with_version: default_install_dir().
InstallDir ==
    /\ ipc = "installdir"
    /\ \E ok \in BOOLEAN :
          IF ok THEN ipc' = "mkdir" /\ UNCHANGED iresult
          ELSE IReturn("NoInstallDir")
    /\ UNCHANGED <<iop, prep, installed_bins, rest, att, nops, helperLog, file0,
                   ledgerVars, rtVars, pickVars, findVars, gzVars, opsVars, upVars>>

\* ensure_install_dir: fs::create_dir_all, and create_dir_with_sudo next
\* when it was denied; download_to_dir: fs::create_dir_all alone.
Mkdir ==
    /\ ipc = "mkdir"
    /\ nops' = nops + 1
    /\ \E err \in IoOutcomes :
          /\ att' = Attempt(nops', "mkdir", "", err)
          /\ IF err = "Ok" THEN ipc' = "primary" /\ UNCHANGED iresult
             ELSE IF iop = "install" /\ err = "PermissionDenied"
             THEN ipc' = "mkdir_sudo" /\ UNCHANGED iresult
             ELSE IReturn("MkdirFailed")
    /\ UNCHANGED <<iop, prep, installed_bins, rest, helperLog, file0,
                   ledgerVars, rtVars, pickVars, findVars, gzVars, opsVars, upVars>>

\* create_dir_with_sudo: sudo mkdir -p.
MkdirSudo ==
    /\ ipc = "mkdir_sudo"
    /\ \E out \in SudoOutcomes :
          /\ helperLog' = IF out = "NotRun" THEN helperLog ELSE Append(helperLog, att)
          /\ IF out = "Ok" THEN ipc' = "primary" /\ UNCHANGED iresult
             ELSE IReturn("SudoMkdirFailed")
    /\ UNCHANGED <<iop, prep, installed_bins, rest, att, nops, file0,
                   ledgerVars, rtVars, pickVars, findVars, gzVars, opsVars, upVars>>

\* The step after the last extra.
AfterCopies ==
    IF RecordsInstall(iop) THEN ipc' = "record" /\ UNCHANGED iresult
    ELSE IReturn("Ok")

\* installed_bins = vec![dest]
PrimaryDone(dest) ==
    /\ installed_bins' = <<dest>>
    /\ ipc' = "extras"
    /\ UNCHANGED <<rest, iresult>>

\* installed_bins.push(extra_dest)
ExtraDone(dest) ==
    /\ installed_bins' = Append(installed_bins, dest)
    /\ rest' = Tail(rest)
    /\ ipc' = "extras"
    /\ UNCHANGED iresult

\* What follows a copy that succeeded.
StepDone(dest) ==
    IF ipc \in {"primary", "primary_sudo"} THEN PrimaryDone(dest) ELSE ExtraDone(dest)

\* install_binary(payload, dest): fs::copy, then set_executable(dest); the
\* copy can have been made when the call fails.  install_payload goes on to
\* install_with_sudo when the error is a permission error; download_to_dir
\* calls install_binary alone.
CopyTo(name, sudoPc) ==
    LET dest == DestOf(name) IN
    /\ nops' = nops + 1
    /\ \E err \in IoOutcomes, copied \in BOOLEAN :
          /\ err = "Ok" => copied
          /\ att' = Attempt(nops', "copy", dest, err)
          /\ disk' = IF copied THEN [disk EXCEPT ![dest] = "file"] ELSE disk
          /\ IF err = "Ok" THEN StepDone(dest)
             ELSE IF iop = "install" /\ is_permission_denied(err)
             THEN ipc' = sudoPc /\ UNCHANGED <<installed_bins, rest, iresult>>
             ELSE IReturn("CopyFailed") /\ UNCHANGED <<installed_bins, rest>>

\* install_with_sudo(payload, dest): set_executable(payload), sudo mv.
SudoMove ==
    \E out \in SudoOutcomes :
        /\ helperLog' = IF out = "NotRun" THEN helperLog ELSE Append(helperLog, att)
        /\ IF out = "Ok"
           THEN /\ disk' = [disk EXCEPT ![att.dest] = "file"]
                /\ StepDone(att.dest)
           ELSE /\ IReturn("SudoMoveFailed")
                /\ UNCHANGED <<disk, installed_bins, rest>>

\* The payload: bail when it has no file name, else install it.
CopyPrimary ==
    /\ ipc = "primary"
    /\ IF prep.path = NoName
       THEN /\ IReturn("NoFilename")
            /\ UNCHANGED <<installed_bins, rest, att, nops, disk>>
       ELSE CopyTo(prep.path, "primary_sudo")
    /\ UNCHANGED <<iop, prep, helperLog, file0,
                   file, lockX, lockS, denied, pc, inv, st, todo, wbuf, result,
                   seen, committed, serial, contended, deleted,
                   rtVars, pickVars, findVars, gzVars, opsVars, upVars>>

CopyPrimarySudo ==
    /\ ipc = "primary_sudo"
    /\ SudoMove
    /\ UNCHANGED <<iop, prep, att, nops, file0,
                   file, lockX, lockS, denied, pc, inv, st, todo, wbuf, result,
                   seen, committed, serial, contended, deleted,
                   rtVars, pickVars, findVars, gzVars, opsVars, upVars>>

\* installed_bins.iter().any(|path| path == &extra_dest)
AlreadyInstalled_Never(dest) == FALSE
AlreadyInstalled(dest) == \E n \in 1..Len(installed_bins) : installed_bins[n] = dest

\* One turn of the loop over prepared.extra_paths: an extra with no file
\* name, or whose destination is in installed_bins, is skipped.
CopyExtra ==
    /\ ipc = "extras"
    /\ IF rest = <<>>
       THEN /\ AfterCopies
            /\ UNCHANGED <<installed_bins, rest, att, nops, disk>>
       ELSE IF Head(rest) = NoName \/ AlreadyInstalled(DestOf(Head(rest)))
       THEN /\ rest' = Tail(rest)
            /\ UNCHANGED <<ipc, iresult, installed_bins, att, nops, disk>>
       ELSE CopyTo(Head(rest), "extra_sudo")
    /\ UNCHANGED <<iop, prep, helperLog, file0,
                   file, lockX, lockS, denied, pc, inv, st, todo, wbuf, result,
                   seen, committed, serial, contended, deleted,
                   rtVars, pickVars, findVars, gzVars, opsVars, upVars>>

CopyExtraSudo ==
    /\ ipc = "extra_sudo"
    /\ SudoMove
    /\ UNCHANGED <<iop, prep, att, nops, file0,
                   file, lockX, lockS, denied, pc, inv, st, todo, wbuf, result,
                   seen, committed, serial, contended, deleted,
                   rtVars, pickVars, findVars, gzVars, opsVars, upVars>>

\* install_with_version: record_install(owner/name, tag, installed_bins)
\* opens the ledger, creating it when missing.
InstallRecordOpen(p) ==
    /\ ipc = "record"
    /\ pc[p] = "idle"
    /\ inv' = [inv EXCEPT ![p] = Invocation("record", InstallRepo, prep.tag, installed_bins)]
    /\ file' = FileOf(file.content)
    /\ pc' = [pc EXCEPT ![p] = "lock"]
    /\ result' = [result EXCEPT ![p] = "running"]
    /\ ipc' = "recording"
    /\ UNCHANGED <<iop, prep, installed_bins, rest, att, nops, helperLog, iresult, file0,
                   lockX, lockS, disk, denied, st, todo, wbuf, seen,
                   committed, serial, contended, deleted,
                   rtVars, pickVars, findVars, gzVars, opsVars, upVars>>

\* record_install's and load_state's steps, as the ledger's processes take
\* them.
InstallProc == 1

InstallLedgerStep(p) ==
    /\ ipc \in {"recording", "load"}
    /\ \/ ipc = "load" /\ LoadOpen(p)
       \/ LockExclusive(p)
       \/ LockShared(p)
       \/ RecordRead(p)
       \/ Truncate(p)
       \/ WriteToken(p)
       \/ Sync(p)
       \/ Unlock(p)
       \/ LoadRead(p)
       \/ LoadUnlock(p)

\* record_install or load_state has returned, and with it the invocation.
InstallLedgerDone(p) ==
    /\ ipc \in {"recording", "load"}
    /\ pc[p] = "done"
    /\ IReturn(result[p])
    /\ UNCHANGED <<iop, prep, installed_bins, rest, att, nops, helperLog, file0,
                   ledgerVars, rtVars, pickVars, findVars, gzVars, opsVars, upVars>>

\* ------------------------------------------- operations, one after another
\* The most operations of a sequence.
MaxOps == 3

\* The files the release of a project at a tag unpacks to, payload first:
\* the tool ships a helper with v1 and drops it with v2; yoink's one binary
\* is called helper.
ReleaseFiles(key, tag) ==
    IF key = "mxcl/tool"
    THEN IF tag = "v1" THEN <<"tool", "helper">> ELSE <<"tool">>
    ELSE <<"helper">>

\* install_with_version: installed_bins, from the payload and the extras.
RECURSIVE push_extras(_, _)
push_extras(bins, extras) ==
    IF extras = <<>> THEN bins
    ELSE IF Head(extras) = NoName \/ \E n \in 1..Len(bins) : bins[n] = DestOf(Head(extras))
    THEN push_extras(bins, Tail(extras))
    ELSE push_extras(Append(bins, DestOf(Head(extras))), Tail(extras))
installed_paths(files) == push_extras(<<DestOf(Head(files))>>, Tail(files))

\* The ledger, the install directory and the copies made, as one value.
OpsState(ledger, dir, copied) == [ledger |-> ledger, dir |-> dir, copied |-> copied]

\* install_with_version(key), every step of which succeeds: the files are
\* copied to their destinations, then the entry of key is put in.
install_with_version(key, tag, s) ==
    LET bins == installed_paths(ReleaseFiles(key, tag))
        dests == {bins[n] : n \in 1..Len(bins)}
    IN OpsState(RecordInsert(s.ledger, key, tag, bins),
                [path \in DOMAIN s.dir |-> IF path \in dests THEN "file" ELSE s.dir[path]],
                s.copied \cup dests)

\* remove_install(key) of a recorded key, every deletion of which succeeds
\* or finds nothing.
remove_install(key, s) ==
    LET paths == all_bins(s.ledger[key])
        gone == {paths[n] : n \in 1..Len(paths)}
    IN OpsState(MapRemove(s.ledger, key),
                [path \in DOMAIN s.dir |-> IF path \in gone THEN "none" ELSE s.dir[path]],
                s.copied)

\* state.installs.keys(): the keys in the map's order.
keys_Reversed(installs) ==
    [n \in 1..Len(SelectSeq(KeyOrder, LAMBDA k : k \in DOMAIN installs)) |->
        SelectSeq(KeyOrder, LAMBDA k : k \in DOMAIN installs)
            [Len(SelectSeq(KeyOrder, LAMBDA k : k \in DOMAIN installs)) + 1 - n]]
keys(installs) == SelectSeq(KeyOrder, LAMBDA k : k \in DOMAIN installs)

\* upgrade_all: install_with_version of each key loaded, in order.
RECURSIVE upgrade_each(_, _, _)
upgrade_each(repos, latest, s) ==
    IF repos = <<>> THEN s
    ELSE upgrade_each(Tail(repos), latest, install_with_version(Head(repos), latest[Head(repos)], s))

OpsIdle ==
    /\ oLedger = EmptyInstalls
    /\ oDisk = [path \in Paths |-> "none"]
    /\ oLatest = [k \in KeySet |-> "v1"]
    /\ oCopied = {}
    /\ oSteps = MaxOps
    /\ oLast = [op |-> "none", key |-> "", deleted |-> {}]

OpsNow == OpsState(oLedger, oDisk, oCopied)

\* The operation has run: its effects, and the history.
OpsDone(op, key, s) ==
    /\ oLedger' = s.ledger
    /\ oDisk' = s.dir
    /\ oCopied' = s.copied
    /\ oSteps' = oSteps + 1
    /\ oLast' = [op |-> op, key |-> key,
                 deleted |-> {path \in Paths : oDisk[path] # "none" /\ s.dir[path] = "none"}]
    /\ UNCHANGED <<oLatest, ledgerVars, rtVars, pickVars, findVars, gzVars, instVars, upVars>>

\* install(key) succeeds.
OpInstall ==
    /\ oSteps < MaxOps
    /\ \E key \in KeySet :
          OpsDone("install", key, install_with_version(key, oLatest[key], OpsNow))

\* uninstall(key) of a recorded key succeeds.
OpUninstall ==
    /\ oSteps < MaxOps
    /\ \E key \in DOMAIN oLedger :
          OpsDone("uninstall", key, remove_install(key, OpsNow))

\* upgrade_all() succeeds.
OpUpgradeAll ==
    /\ oSteps < MaxOps
    /\ OpsDone("upgrade", "", upgrade_each(keys(oLedger), oLatest, OpsNow))

\* A project publishes its next release.
OpPublish ==
    /\ \E key \in KeySet :
          /\ oLatest[key] = "v1"
          /\ oLatest' = [oLatest EXCEPT ![key] = "v2"]
    /\ UNCHANGED <<oLedger, oDisk, oCopied, oSteps, oLast,
                   ledgerVars, rtVars, pickVars, findVars, gzVars, instVars, upVars>>


\* -------------------------------------------------------------- upgrade_all
\* The process that runs upgrade_all, and one that runs next to it.
UpgradeProc == 1
OtherProc == 2

\* What install_with_version installs of a project's latest release.
UpgradeBins(key) == installed_paths(ReleaseFiles(key, ReleaseTag))

\* struct UpgradeSummary { repo, version, path }
UpgradeSummary(repo, version, path) == [repo |-> repo, version |-> version, path |-> path]

\* load_state: file.unlock()
LoadReleased_Kept(p) == lockS
LoadReleased(p) == lockS \ {p}

\* upgrade_all returns.
UReturn(outcome) ==
    /\ upc' = "done"
    /\ uresult' = outcome

\* upgrade_all is called.
UpStart ==
    /\ upc = "idle"
    /\ upc' = "load"
    /\ uresult' = "running"
    /\ uinstalls0' = IF load_state(file).ok THEN load_state(file).val ELSE EmptyInstalls
    /\ UNCHANGED <<urepos, uupgrades,
                   ledgerVars, rtVars, pickVars, findVars, gzVars, instVars, opsVars>>

\* load_state: file.unlock(), Ok(state); upgrade_all: the keys of the state.
UpLoadUnlock(p) ==
    /\ upc = "load"
    /\ pc[p] = "unlock" /\ inv[p].op = "load"
    /\ lockS' = LoadReleased(p)
    /\ urepos' = keys(st[p])
    /\ Return(p, "Ok")
    /\ upc' = "next"
    /\ UNCHANGED <<uupgrades, uresult, uinstalls0,
                   file, lockX, disk, denied, inv, committed, serial, contended, deleted,
                   rtVars, pickVars, findVars, gzVars, instVars, opsVars>>

\* load_state has returned without a lock: the default state of a missing
\* file, or an error.
UpLoadDone(p) ==
    /\ upc = "load"
    /\ pc[p] = "done"
    /\ IF result[p] = "Ok"
       THEN /\ urepos' = <<>>
            /\ upc' = "next"
            /\ UNCHANGED uresult
       ELSE /\ UReturn(result[p])
            /\ UNCHANGED urepos
    /\ UNCHANGED <<uupgrades, uinstalls0,
                   ledgerVars, rtVars, pickVars, findVars, gzVars, instVars, opsVars>>

\* for repo in repos
UpNext ==
    /\ upc = "next"
    /\ IF urepos = <<>> THEN UReturn("Ok")
       ELSE upc' = "install" /\ UNCHANGED uresult
    /\ UNCHANGED <<urepos, uupgrades, uinstalls0,
                   ledgerVars, rtVars, pickVars, findVars, gzVars, instVars, opsVars>>

\* install_with_version(&repo) up to record_install: the release's files
\* are copied into the install directory, or a step fails.
UpInstall ==
    /\ upc = "install"
    /\ \E ok \in BOOLEAN :
          IF ok
          THEN /\ disk' = [path \in Paths |->
                             IF path \in {UpgradeBins(Head(urepos))[n] :
                                             n \in 1..Len(UpgradeBins(Head(urepos)))}
                             THEN "file" ELSE disk[path]]
               /\ upc' = "record"
               /\ UNCHANGED uresult
          ELSE /\ UReturn("InstallFailed")
               /\ UNCHANGED disk
    /\ UNCHANGED <<urepos, uupgrades, uinstalls0,
                   file, lockX, lockS, denied, pc, inv, st, todo, wbuf, result,
                   seen, committed, serial, contended, deleted,
                   rtVars, pickVars, findVars, gzVars, instVars, opsVars>>

\* install_with_version: record_install(repo, tag, installed_bins) opens the
\* ledger.
UpRecordOpen(p) ==
    /\ upc = "record"
    /\ inv' = [inv EXCEPT ![p] =
                 Invocation("record", Head(urepos), ReleaseTag, UpgradeBins(Head(urepos)))]
    /\ file' = FileOf(file.content)
    /\ pc' = [pc EXCEPT ![p] = "lock"]
    /\ result' = [result EXCEPT ![p] = "running"]
    /\ upc' = "recording"
    /\ UNCHANGED <<urepos, uupgrades, uresult, uinstalls0,
                   lockX, lockS, disk, denied, st, todo, wbuf, seen,
                   committed, serial, contended, deleted,
                   rtVars, pickVars, findVars, gzVars, instVars, opsVars>>

\* record_install has returned: the summary is pushed, or upgrade_all
\* returns the error.
UpRecorded(p) ==
    /\ upc = "recording"
    /\ pc[p] = "done"
    /\ IF result[p] = "Ok"
       THEN /\ uupgrades' = Append(uupgrades,
                               UpgradeSummary(Head(urepos), ReleaseTag, Head(UpgradeBins(Head(urepos)))))
            /\ urepos' = Tail(urepos)
            /\ upc' = "next"
            /\ UNCHANGED uresult
       ELSE /\ UReturn(result[p])
            /\ UNCHANGED <<urepos, uupgrades>>
    /\ UNCHANGED <<uinstalls0,
                   ledgerVars, rtVars, pickVars, findVars, gzVars, instVars, opsVars>>

UpIdle ==
    /\ upc = "done"
    /\ urepos = <<>>
    /\ uupgrades = <<>>
    /\ uresult = "none"
    /\ uinstalls0 = EmptyInstalls

LateIdle == OpsIdle /\ UpIdle

MoreIdle == FindIdle /\ GzIdle /\ InstIdle /\ LateIdle

\* ---- the ledger's processes
LedgerIdle ==
    /\ file = NoFile
    /\ lockX = NoProc
    /\ lockS = {}
    /\ disk = [path \in Paths |-> "none"]
    /\ denied = {}
    /\ pc = [p \in Procs |-> "done"]
    /\ inv = [p \in Procs |-> NoInvocation]
    /\ st = [p \in Procs |-> EmptyInstalls]
    /\ todo = [p \in Procs |-> <<>>]
    /\ wbuf = [p \in Procs |-> <<>>]
    /\ result = [p \in Procs |-> "none"]
    /\ seen = [p \in Procs |-> EmptyInstalls]
    /\ committed = <<>>
    /\ serial = EmptyInstalls
    /\ contended = [p \in Procs |-> FALSE]
    /\ deleted = [p \in Procs |-> {}]

LedgerStep(p) ==
    \/ RecordOpen(p)
    \/ RemoveOpen(p)
    \/ LoadOpen(p)
    \/ LockExclusive(p)
    \/ LockShared(p)
    \/ RecordRead(p)
    \/ RemoveRead(p)
    \/ RemoveBin(p)
    \/ RemoveAbort(p)
    \/ Truncate(p)
    \/ WriteToken(p)
    \/ Sync(p)
    \/ Unlock(p)
    \/ LoadRead(p)
    \/ LoadUnlock(p)

Init == InitLedger /\ RtIdle /\ PickIdle /\ MoreIdle

Next == \E p \in Procs : LedgerStep(p)

\* Concurrent invocations of record_install, remove_install and load_state,
\* none killed.
Spec == Init /\ [][Next]_vars

NextKill == \E p \in Procs : LedgerStep(p) \/ Kill(p)

\* The same invocations, any of which can be killed at any step.
SpecKill == Init /\ [][NextKill]_vars

NextIoError == \E p \in Procs : LedgerStep(p) \/ IoError(p)

\* The same invocations, any file call of which can fail.
SpecIoError == Init /\ [][NextIoError]_vars

InitRoundTrip ==
    /\ LedgerIdle
    /\ PickIdle
    /\ MoreIdle
    /\ rtPhase = "start"
    /\ rtState \in InstallStates
    /\ rtFile \in BlankFiles
    /\ rtOut = PFail

NextRoundTrip == RtWrite \/ RtRead \/ RtLoad

\* A ledger is written and read back; a blank file is loaded.
SpecRoundTrip == InitRoundTrip /\ [][NextRoundTrip]_vars

InitPick ==
    /\ LedgerIdle
    /\ RtIdle
    /\ MoreIdle
    /\ hostOs \in HostOses
    /\ hostArch \in HostArchs
    /\ assets \in AssetLists
    /\ picked = NotPicked

NextPick == Pick

\* pick_asset is applied to every asset list of the model, on every host.
SpecPick == InitPick /\ [][NextPick]_vars

InitFind ==
    /\ LedgerIdle
    /\ RtIdle
    /\ hostOs \in {"linux", "windows"}
    /\ hostArch = "x86_64"
    /\ assets = <<>>
    /\ picked = NotPicked
    /\ fbRoot \in Roots
    /\ fbRepo \in RepoNames
    /\ fbWalk \in Walks
    /\ fbOut = NotFoundYet
    /\ GzIdle
    /\ InstIdle
    /\ LateIdle

NextFind == Locate

\* find_binaries is applied to every tree of the model, walked in every
\* order, under every root.
SpecFind == InitFind /\ [][NextFind]_vars

InitGzip ==
    /\ LedgerIdle
    /\ RtIdle
    /\ hostOs \in {"linux", "windows"}
    /\ hostArch = "x86_64"
    /\ assets = <<>>
    /\ picked = NotPicked
    /\ FindIdle
    /\ InstIdle
    /\ LateIdle
    /\ gzAsset \in GzAssetNames
    /\ gzRepo \in GzRepoNames
    /\ gzPc = "start"
    /\ gzDest = <<>>
    /\ gzScratch = <<>>
    /\ gzOut = NotFoundYet
    /\ gzLocated = FALSE

NextGzip == GzClassify \/ GzCreate \/ GzDecode \/ GzChoose

\* prepare_binary's handling of every asset name of the model, for every
\* repository name.
SpecGzip == InitGzip /\ [][NextGzip]_vars

InitOps ==
    /\ LedgerIdle
    /\ RtIdle
    /\ PickIdle
    /\ FindIdle
    /\ GzIdle
    /\ InstIdle
    /\ UpIdle
    /\ oLedger = EmptyInstalls
    /\ oDisk = [path \in Paths |-> "none"]
    /\ oLatest = [k \in KeySet |-> "v1"]
    /\ oCopied = {}
    /\ oSteps = 0
    /\ oLast = [op |-> "none", key |-> "", deleted |-> {}]

NextOps == OpInstall \/ OpUninstall \/ OpUpgradeAll \/ OpPublish

\* Up to MaxOps successful installs, upgrades and uninstalls into an empty
\* install directory, with releases published in between.
SpecOps == InitOps /\ [][NextOps]_vars

InitUpgrade ==
    /\ file \in InitialFiles
    /\ lockX = NoProc
    /\ lockS = {}
    /\ disk \in [Paths -> {"none", "file"}]
    /\ denied = {}
    /\ pc = [p \in Procs |-> IF p \in {UpgradeProc, OtherProc} THEN "idle" ELSE "done"]
    /\ inv = [p \in Procs |-> NoInvocation]
    /\ st = [p \in Procs |-> EmptyInstalls]
    /\ todo = [p \in Procs |-> <<>>]
    /\ wbuf = [p \in Procs |-> <<>>]
    /\ result = [p \in Procs |-> "none"]
    /\ seen = [p \in Procs |-> EmptyInstalls]
    /\ committed = file.content
    /\ serial = read_state_locked(file.content).val
    /\ contended = [p \in Procs |-> FALSE]
    /\ deleted = [p \in Procs |-> {}]
    /\ RtIdle
    /\ PickIdle
    /\ FindIdle
    /\ GzIdle
    /\ InstIdle
    /\ OpsIdle
    /\ upc = "idle"
    /\ urepos = <<>>
    /\ uupgrades = <<>>
    /\ uresult = "none"
    /\ uinstalls0 = EmptyInstalls

\* A step of the ledger's code: load_state's and record_install's steps as
\* upgrade_all's process takes them (UpLoadUnlock is its last step of
\* load_state), or any step of the other process, which starts once
\* upgrade_all has.
ProcStep(p) ==
    /\ p = UpgradeProc =>
          /\ upc \in {"load", "recording"}
          /\ ~(upc = "load" /\ pc[p] = "unlock")
    /\ LedgerStep(p)
    /\ (p = UpgradeProc /\ pc[p] = "idle") => inv'[p].op = "load"

UpgradeOwnStep ==
    \/ UpStart
    \/ UpLoadUnlock(UpgradeProc)
    \/ UpLoadDone(UpgradeProc)
    \/ UpNext
    \/ UpInstall
    \/ UpRecordOpen(UpgradeProc)
    \/ UpRecorded(UpgradeProc)

NextUpgrade == UpgradeOwnStep \/ (\E p \in Procs : ProcStep(p))

\* One upgrade_all, next to which another process records, removes or
\* loads.
SpecUpgrade == InitUpgrade /\ [][NextUpgrade]_vars

\* The keys of the ledger upgrade_all started with, in key order, and the
\* projects of the summaries pushed so far.
StartedWith == SelectSeq(KeyOrder, LAMBDA k : k \in DOMAIN uinstalls0)
SummaryRepos == [n \in 1..Len(uupgrades) |-> uupgrades[n].repo]
IsPrefix(a, b) == Len(a) <= Len(b) /\ \A n \in 1..Len(a) : a[n] = b[n]
Alone == pc[OtherProc] = "idle"
LedgerNow == read_state_locked(file.content)

C23_WitnessStopped ==
    /\ Alone
    /\ upc = "done" /\ uresult = "InstallFailed"
    /\ Len(uupgrades) = 1
    /\ DOMAIN uinstalls0 = KeySet

\* C25: upgrade_all never records a key that is absent from the ledger at
\* the moment it takes the exclusive lock to record: a key an uninstall
\* removed while upgrade_all was running is not put back.
C25_RemovedKeyNotPutBack ==
    [][((upc = "recording" /\ lockX # UpgradeProc /\ lockX' = UpgradeProc) =>
           inv[UpgradeProc].key \in DOMAIN LedgerNow.val)]_vars

\* The same, each process taking its next step when it can: upgrade_all's
\* own steps and each process's steps of the ledger's code are taken when
\* they stay possible (a lock request only once the lock can be granted),
\* and no process stays at its read of the file, which needs nothing of
\* another process (read_to_string and the parse end in some outcome).
SpecUpgradeFair ==
    /\ SpecUpgrade
    /\ WF_vars(UpgradeOwnStep)
    /\ \A p \in {UpgradeProc, OtherProc} :
          /\ WF_vars(pc[p] # "read" /\ ProcStep(p))
          /\ []<>(pc[p] # "read")

HoldsLock(p) == lockX = p \/ p \in lockS

\* C30: with one upgrade_all and one other invocation, none killed, each
\* taking its steps fairly: an invocation that requests the ledger lock
\* is granted it; an invocation holding the lock releases it and returns;
\* upgrade_all returns; and no invocation requests the lock while it holds
\* it.
C30_LockGrantedReleasedReturned ==
    /\ \A p \in {UpgradeProc, OtherProc} :
          /\ (pc[p] = "lock") ~> HoldsLock(p)
          /\ HoldsLock(p) ~> (pc[p] = "done" /\ ~HoldsLock(p))
          /\ (pc[p] # "idle") ~> [](pc[p] = "done" \/ p = UpgradeProc)
    /\ (upc # "idle") ~> [](upc = "done" /\ pc[UpgradeProc] = "done")
    /\ [](\A p \in Procs : pc[p] = "lock" => ~HoldsLock(p))

\* Both invocations have returned, upgrade_all after recording two keys,
\* and one of them found the lock held when it asked for it.
C30_Witness ==
    /\ upc = "done" /\ uresult = "Ok" /\ Len(uupgrades) = 2
    /\ pc[UpgradeProc] = "done" /\ pc[OtherProc] = "done"
    /\ \E p \in {UpgradeProc, OtherProc} : contended[p]
    /\ lockX = NoProc /\ lockS = {}

InitInstall ==
    /\ file \in InitialFiles
    /\ lockX = NoProc
    /\ lockS = {}
    /\ disk = [path \in Paths |-> "none"]
    /\ denied = {}
    /\ pc = [p \in Procs |-> IF p = InstallProc THEN "idle" ELSE "done"]
    /\ inv = [p \in Procs |-> NoInvocation]
    /\ st = [p \in Procs |-> EmptyInstalls]
    /\ todo = [p \in Procs |-> <<>>]
    /\ wbuf = [p \in Procs |-> <<>>]
    /\ result = [p \in Procs |-> "none"]
    /\ seen = [p \in Procs |-> EmptyInstalls]
    /\ committed = file.content
    /\ serial = read_state_locked(file.content).val
    /\ contended = [p \in Procs |-> FALSE]
    /\ deleted = [p \in Procs |-> {}]
    /\ RtIdle
    /\ hostOs \in {"linux", "windows"}
    /\ hostArch = "x86_64"
    /\ assets = <<>>
    /\ picked = NotPicked
    /\ FindIdle
    /\ GzIdle
    /\ LateIdle
    /\ iop = "none"
    /\ ipc = "idle"
    /\ prep = NoPrepared
    /\ installed_bins = <<>>
    /\ rest = <<>>
    /\ att = NoAttempt
    /\ nops = 0
    /\ helperLog = <<>>
    /\ iresult = "none"
    /\ file0 = file

NextInstall ==
    \/ InstStart
    \/ Resolve
    \/ Download
    \/ Extract
    \/ LocatePayload
    \/ Exec
    \/ InstallDir
    \/ Mkdir
    \/ MkdirSudo
    \/ CopyPrimary
    \/ CopyPrimarySudo
    \/ CopyExtra
    \/ CopyExtraSudo
    \/ InstallRecordOpen(InstallProc)
    \/ InstallLedgerStep(InstallProc)
    \/ InstallLedgerDone(InstallProc)

\* One invocation of install, download_to_dir, run, release_info or
\* list_installs, every step of which can fail.
SpecInstall == InitInstall /\ [][NextInstall]_vars

\* ------------------------------------------------------------ the claims
\* What the claims speak of, stated apart from the model's operations.
Ledger(f) == read_state_locked(f.content)
Mutation(p) == inv[p].op \in {"record", "remove"}
InCriticalSection(p) == pc[p] \in {"read", "del", "abort", "trunc", "write", "sync", "unlock"}
Stepped(p) == pc'[p] # pc[p] \/ todo'[p] # todo[p] \/ wbuf'[p] # wbuf[p]
Upsert(installs, key, entry) ==
    [k \in (DOMAIN installs) \cup {key} |-> IF k = key THEN entry ELSE installs[k]]
Without(installs, key) == [k \in (DOMAIN installs) \ {key} |-> installs[k]]
EntryPaths(entry) == {entry.bin} \cup {entry.bins[n] : n \in 1..Len(entry.bins)}
Gone(path) == disk[path] = "none"

\* C1: a mutation holds the exclusive lock from before it reads the file
\* until after it has rewritten and synced it, and whenever no mutation
\* holds the lock the ledger is the result of applying the mutations so far
\* one at a time, in the order they took the lock.
C1_MutationsSerialized ==
    /\ \A p \in Procs : Mutation(p) /\ InCriticalSection(p) => lockX = p
    /\ lockX = NoProc => Ledger(file).ok /\ Ledger(file).val = serial

\* Two records of different keys, the second of which waited for the lock
\* while the first held it, have both returned, and both keys are recorded.
C1_Witness ==
    \E p, q \in Procs :
        /\ inv[p].op = "record" /\ inv[q].op = "record" /\ inv[p].key # inv[q].key
        /\ result[p] = "Ok" /\ result[q] = "Ok"
        /\ contended[q]
        /\ {inv[p].key, inv[q].key} \subseteq DOMAIN Ledger(file).val
        /\ lockX = NoProc

\* C2: what a load reads under its shared lock is the document as the last
\* completed write left it (or the initial one), and it parses; the state
\* the load returns is that document's.
C2_LoadReadsWholeDocument ==
    \A p \in Procs :
        inv[p].op = "load" =>
            /\ pc[p] = "read" => file.content = committed /\ Ledger(file).ok
            /\ pc[p] = "unlock" => st[p] = read_state_locked(committed).val

\* A load that waited while a mutation held the lock is about to read, and
\* that mutation has rewritten the ledger and returned.
C2_Witness ==
    \E p, q \in Procs :
        /\ inv[p].op = "load" /\ pc[p] = "read" /\ contended[p]
        /\ Mutation(q) /\ result[q] = "Ok"
        /\ Ledger(file).val # EmptyInstalls

\* C3: whenever no process holds the exclusive lock, killed processes
\* included, the file holds a complete document: the last one written to
\* the end, which parses.
C3_KillLeavesWholeDocument ==
    lockX = NoProc => file.content = committed /\ Ledger(file).ok

\* C4: when the removal of a path of the entry fails with an error other
\* than NotFound, remove stops without touching the file, and returns the
\* error with the lock released and the ledger as it found it.
C4_RemoveFailureKeepsLedger ==
    [][\A p \in Procs :
        /\ (/\ pc[p] = "del" /\ Stepped(p)
            /\ RemovePath(Head(todo[p])) \notin {"Ok", "NotFound"})
           => pc'[p] = "abort" /\ file' = file
        /\ (pc[p] = "abort" /\ Stepped(p))
           => /\ pc'[p] = "done" /\ result'[p] = "RemoveFailed"
              /\ lockX' # p
              /\ file' = file
              /\ Ledger(file').ok /\ Ledger(file').val = seen[p]
              /\ inv[p].key \in DOMAIN Ledger(file').val
      ]_vars

\* A remove has failed on a path and the ledger still holds its key.
C4_Witness ==
    \E p \in Procs :
        /\ inv[p].op = "remove" /\ result[p] = "RemoveFailed"
        /\ lockX = NoProc
        /\ inv[p].key \in DOMAIN Ledger(file).val

\* C5: a remove of a recorded key, every path of whose entry can be deleted
\* or is missing, returns Ok; the ledger is then the one it found less the
\* key, and none of the entry's paths exists.
C5_RemoveSucceeds ==
    [][\A p \in Procs :
        (/\ inv[p].op = "remove" /\ pc[p] \in {"del", "abort", "unlock"} /\ pc'[p] = "done"
         /\ \A path \in EntryPaths(seen[p][inv[p].key]) : Gone(path) \/ path \notin denied)
        => /\ result'[p] = "Ok"
           /\ Ledger(file').ok
           /\ Ledger(file').val = Without(seen[p], inv[p].key)
           /\ \A path \in EntryPaths(seen[p][inv[p].key]) : disk'[path] = "none"
      ]_vars

\* A remove is about to return Ok for an entry of two paths: neither path
\* exists any more and the rewritten ledger is the one it read less its key.
C5_Witness ==
    \E p \in Procs :
        /\ inv[p].op = "remove" /\ pc[p] = "unlock"
        /\ Cardinality(EntryPaths(seen[p][inv[p].key])) = 2
        /\ \A path \in EntryPaths(seen[p][inv[p].key]) : Gone(path)
        /\ Ledger(file).val = Without(seen[p], inv[p].key)

\* C6: a remove of a key that is not in the ledger, or with no ledger file,
\* fails, and leaves the file and the installed paths as they are.
C6_RemoveMissingKey ==
    [][\A p \in Procs :
        /\ (pc[p] = "idle" /\ pc'[p] # "idle" /\ inv'[p].op = "remove" /\ ~file.exists)
           => /\ pc'[p] = "done" /\ result'[p] = "NoInstalls"
              /\ file' = file /\ disk' = disk
        /\ (/\ pc[p] = "read" /\ inv[p].op = "remove" /\ Stepped(p)
            /\ Ledger(file).ok /\ inv[p].key \notin DOMAIN Ledger(file).val)
           => /\ pc'[p] = "done" /\ result'[p] = "NotInstalled"
              /\ file' = file /\ disk' = disk
              /\ lockX' # p
      ]_vars

\* A remove of a key has succeeded and a second remove of the same key has
\* failed.
C6_Witness ==
    \E p, q \in Procs :
        /\ inv[p].op = "remove" /\ inv[q].op = "remove" /\ inv[p].key = inv[q].key
        /\ result[p] = "Ok" /\ result[q] = "NotInstalled"

\* C7: a record with bins returns Ok with the ledger it found changed in
\* the entry of its key alone, which is {version, first path, other paths};
\* a record without bins fails and leaves the ledger's mapping as it was.
C7_RecordEffect ==
    [][\A p \in Procs :
        /\ (/\ pc[p] = "read" /\ inv[p].op = "record" /\ Stepped(p) /\ Ledger(file).ok)
           => IF inv[p].bins = <<>>
              THEN /\ pc'[p] = "done" /\ result'[p] = "EmptyInstallSet"
                   /\ Ledger(file').ok /\ Ledger(file').val = Ledger(file).val
              ELSE pc'[p] = "trunc"
        /\ (pc[p] = "unlock" /\ inv[p].op = "record" /\ Stepped(p))
           => /\ pc'[p] = "done" /\ result'[p] = "Ok"
              /\ inv[p].bins # <<>>
              /\ Ledger(file').ok
              /\ Ledger(file').val =
                    Upsert(seen[p], inv[p].key,
                           [version |-> inv[p].version, bin |-> Head(inv[p].bins),
                            bins |-> Tail(inv[p].bins)])
      ]_vars

\* A record has replaced the entry of its key, which had another version,
\* and the entry of the other key is as it was at the start.
C7_Witness ==
    \E p \in Procs :
        /\ inv[p] = Invocation("record", "mxcl/tool", "v2", <<"/bin/tool", "/bin/helper">>)
        /\ result[p] = "Ok"
        /\ Ledger(file).ok
        /\ DOMAIN Ledger(file).val = {"mxcl/tool", "mxcl/yoink"}
        /\ Ledger(file).val["mxcl/tool"] =
              [version |-> "v2", bin |-> "/bin/tool", bins |-> <<"/bin/helper">>]
        /\ Ledger(file).val["mxcl/yoink"] = [version |-> "v1", bin |-> "/bin/helper", bins |-> <<>>]
        /\ \A q \in Procs \ {p} : pc[q] = "idle"

\* C8: a ledger written and read back is the ledger written; a missing,
\* zero-byte or blank file loads as the empty ledger.
C8_RoundTrip ==
    /\ rtPhase = "read" => rtOut.ok /\ rtOut.val = rtState
    /\ rtPhase = "loaded" => rtOut.ok /\ rtOut.val = EmptyInstalls

\* A ledger of two entries, one without extras and one with two, has been
\* written and read back.
C8_Witness ==
    /\ rtPhase = "read"
    /\ DOMAIN rtState = KeySet
    /\ \E k \in KeySet : rtState[k].bins = <<>>
    /\ \E k \in KeySet : Len(rtState[k].bins) = 2
    /\ rtOut.val = rtState

\* A white-space-only file has been loaded.
C8_WitnessBlank ==
    /\ rtPhase = "loaded"
    /\ rtFile.exists /\ rtFile.content # <<>>
    /\ rtOut.val = EmptyInstalls

\* C9: pick_asset fails exactly when the list is empty, with "release has
\* no assets"; otherwise it returns one asset of the list.
C9_PickFailsOnlyOnEmpty ==
    picked # NotPicked =>
        /\ picked.status = "err" <=> assets = <<>>
        /\ picked.status = "err" => picked.err = "release has no assets"
        /\ picked.status = "ok" => \E i \in 1..Len(assets) : assets[i] = picked.asset

\* pick_asset has returned an asset of a list of three.
C9_Witness ==
    /\ picked.status = "ok"
    /\ Len(assets) = 3
    /\ \E i \in 1..Len(assets) : assets[i] = picked.asset

IsNoise(name) ==
    LET lower == to_lowercase(name) IN
    \/ \E sfx \in {Sfx_sha256, Sfx_sha256sum, Sfx_sha512, Sfx_sig, Sfx_asc, Sfx_md5} :
          Len(sfx) <= Len(lower) /\ SubSeq(lower, Len(lower) - Len(sfx) + 1, Len(lower)) = sfx
    \/ \E word \in {Str_checksum, Str_sbom} :
          \E i \in 1..(Len(lower) - Len(word) + 1) : SubSeq(lower, i, i + Len(word) - 1) = word

\* C10: when some asset of the list has no noise name, the asset returned
\* has none; when all have one, an asset of the list is returned all the
\* same.
C10_NoiseIsFilteredOut ==
    (picked # NotPicked /\ assets # <<>>) =>
        /\ picked.status = "ok"
        /\ \E i \in 1..Len(assets) : assets[i] = picked.asset
        /\ (\E i \in 1..Len(assets) : ~IsNoise(assets[i].name)) => ~IsNoise(picked.asset.name)

\* A noise asset scores higher than the asset returned.
C10_Witness ==
    /\ picked.status = "ok"
    /\ ~IsNoise(picked.asset.name)
    /\ \E i \in 1..Len(assets) :
          /\ IsNoise(assets[i].name)
          /\ asset_score(assets[i].name, os_tokens, arch_tokens)
                > asset_score(picked.asset.name, os_tokens, arch_tokens)

\* Every asset of the list has a noise name and one of them is returned.
C10_WitnessFallback ==
    /\ picked.status = "ok"
    /\ Len(assets) >= 2
    /\ \A i \in 1..Len(assets) : IsNoise(assets[i].name)

\* The positions of the list pick_asset chooses among: those of the assets
\* without a noise name, or all of them when every asset has one.
CandidateIndices ==
    LET clean == {i \in 1..Len(assets) : ~IsNoise(assets[i].name)} IN
    IF clean = {} THEN 1..Len(assets) ELSE clean
ScoreAt(i) == asset_score(assets[i].name, os_tokens, arch_tokens)

\* C11: the asset returned is a candidate of maximum score, and the first
\* in input order of the candidates that have that score.
C11_FirstOfMaximumScore ==
    (picked # NotPicked /\ assets # <<>>) =>
        /\ picked.status = "ok"
        /\ \E j \in CandidateIndices :
              /\ picked.asset = assets[j]
              /\ \A i \in CandidateIndices : ScoreAt(i) <= ScoreAt(j)
              /\ \A i \in CandidateIndices : ScoreAt(i) = ScoreAt(j) => j <= i

\* Two candidates with different URLs share the maximum score, a candidate
\* of lower score comes before them, and the first of the two is returned.
C11_Witness ==
    /\ picked.status = "ok"
    /\ \E j, k \in CandidateIndices :
          /\ j < k /\ ScoreAt(j) = ScoreAt(k)
          /\ \A i \in CandidateIndices : ScoreAt(i) <= ScoreAt(j)
          /\ \E i \in CandidateIndices : i < j /\ ScoreAt(i) < ScoreAt(j)
          /\ picked.asset = assets[j]

\* Whether a name, lower-cased, holds one of the host's OS tokens and one of
\* its architecture tokens.
HasToken(name, tokens) ==
    LET lower == to_lowercase(name) IN
    \E n \in 1..Len(tokens) :
        \E i \in 1..(Len(lower) - Len(tokens[n]) + 1) :
            SubSeq(lower, i, i + Len(tokens[n]) - 1) = tokens[n]
MatchesBoth(name) == HasToken(name, os_tokens) /\ HasToken(name, arch_tokens)
BothIndices == {i \in 1..Len(assets) : MatchesBoth(assets[i].name)}
CleanBothIndices == {i \in BothIndices : ~IsNoise(assets[i].name)}

\* C12 as stated: when some asset of the list matches an OS token and an
\* architecture token of the host, the asset returned is one of those, the
\* first of the highest-scoring ones.
C12_ReturnsOsArchMatch ==
    (picked # NotPicked /\ BothIndices # {}) =>
        /\ picked.status = "ok"
        /\ \E j \in BothIndices :
              /\ picked.asset = assets[j]
              /\ \A i \in BothIndices : ScoreAt(i) <= ScoreAt(j)
              /\ \A i \in BothIndices : ScoreAt(i) = ScoreAt(j) => j <= i

\* C12 amended: when some asset without a noise name matches an OS token
\* and an architecture token of the host, the asset returned is one of
\* those, the first in input order of the highest-scoring ones.
C12_ReturnsCleanOsArchMatch ==
    (picked # NotPicked /\ CleanBothIndices # {}) =>
        /\ picked.status = "ok"
        /\ \E j \in CleanBothIndices :
              /\ picked.asset = assets[j]
              /\ \A i \in CleanBothIndices : ScoreAt(i) <= ScoreAt(j)
              /\ \A i \in CleanBothIndices : ScoreAt(i) = ScoreAt(j) => j <= i

\* The asset returned matches the host's OS and architecture, it is not an
\* archive, and an archive that matches neither comes before it.
C12_Witness ==
    /\ picked.status = "ok"
    /\ \E j \in CleanBothIndices :
          /\ picked.asset = assets[j]
          /\ ~is_archive_name(assets[j].name)
          /\ \E i \in 1..Len(assets) :
                i < j /\ is_archive_name(assets[i].name) /\ ~IsNoise(assets[i].name)
                /\ i \notin BothIndices

\* What the claims about find_binaries speak of: the regular files of the
\* tree, those whose name is the target's or the fallback's, those that pass
\* the probable-binary filter, and those with a component named bin.
TreeFiles == {fbRoot \o fbWalk[n].path : n \in {m \in 1..Len(fbWalk) : fbWalk[m].kind = "file"}}
LowerName(path) == to_lowercase(path[Len(path)])
ExactSet ==
    {path \in TreeFiles :
        LowerName(path) \in {to_lowercase(binary_name(fbRepo)), to_lowercase(fbRepo)}}
ProbableSet == {path \in TreeFiles : is_probable_binary_candidate(path)}
UnderBin(path) == \E n \in 1..Len(path) : Len(path[n]) = Len(Dir_bin) /\ to_lowercase(path[n]) = Dir_bin
Located == fbOut # NotFoundYet
SeqRange(seq) == {seq[n] : n \in 1..Len(seq)}

\* C13: find_binaries fails exactly when the tree has no exact match, no
\* probable match and not exactly one regular file; otherwise the primary
\* is a regular file of the tree, and the single file of a tree without
\* exact or probable match is the primary, with no extras.
C13_FailsOnlyWithoutCandidate ==
    Located =>
        LET none == ExactSet = {} /\ ProbableSet = {} IN
        /\ fbOut.status \in {"ok", "err"}
        /\ fbOut.status = "err" <=> (none /\ Cardinality(TreeFiles) # 1)
        /\ fbOut.status = "err" => fbOut.err = "unable to locate extracted binary"
        /\ fbOut.status = "ok" => fbOut.primary \in TreeFiles
        /\ (none /\ Cardinality(TreeFiles) = 1)
              => fbOut.primary \in TreeFiles /\ fbOut.extras = <<>>

\* The one regular file of a tree, notes.txt, beside a symlink, is returned
\* as the primary with no extras.
C13_Witness ==
    /\ Located /\ fbOut.status = "ok"
    /\ TreeFiles = {fbRoot \o Rel_notes_txt}
    /\ Len(fbWalk) = 2
    /\ ExactSet = {} /\ ProbableSet = {}
    /\ fbOut.primary = fbRoot \o Rel_notes_txt /\ fbOut.extras = <<>>

\* Two regular files, neither exact nor probable: find_binaries has failed.
C13_WitnessFails ==
    /\ Located /\ fbOut.status = "err"
    /\ Cardinality(TreeFiles) = 2

\* C14: on success the extras are the probable matches other than the
\* primary, each once, in ascending order of path length.
C14_ExtrasAreOtherProbables ==
    (Located /\ fbOut.status = "ok") =>
        /\ SeqRange(fbOut.extras) = ProbableSet \ {fbOut.primary}
        /\ Len(fbOut.extras) = Cardinality(SeqRange(fbOut.extras))
        /\ \A i, j \in 1..Len(fbOut.extras) :
              i < j => PathLen(fbOut.extras[i]) <= PathLen(fbOut.extras[j])

\* The primary is an exact match that also passes the filter, and the two
\* extras, walked longest first, are returned shortest first.
C14_Witness ==
    /\ Located /\ fbOut.status = "ok"
    /\ fbOut.primary \in ExactSet /\ fbOut.primary \in ProbableSet
    /\ Len(fbOut.extras) = 2
    /\ PathLen(fbOut.extras[1]) < PathLen(fbOut.extras[2])
    /\ \E i, j \in 1..Len(fbWalk) :
          /\ i < j
          /\ fbRoot \o fbWalk[i].path = fbOut.extras[2]
          /\ fbRoot \o fbWalk[j].path = fbOut.extras[1]

\* C15: when the tree has an exact match, the primary is an exact match
\* and no exact match has a shorter path.
C15_ShortestExactWins ==
    Located =>
        LET exact == ExactSet IN
        exact # {} =>
            /\ fbOut.status = "ok"
            /\ fbOut.primary \in exact
            /\ \A path \in exact : PathLen(fbOut.primary) <= PathLen(path)

\* Of two exact matches the longer is walked first and the shorter is the
\* primary, although a probable match under bin is in the tree.
C15_Witness ==
    /\ Located /\ fbOut.status = "ok"
    /\ Cardinality(ExactSet) = 2
    /\ \E n \in 1..Len(fbWalk) :
          /\ fbRoot \o fbWalk[n].path \in ExactSet \ {fbOut.primary}
          /\ PathLen(fbRoot \o fbWalk[n].path) > PathLen(fbOut.primary)
          /\ \E m \in 1..Len(fbWalk) : n < m /\ fbRoot \o fbWalk[m].path = fbOut.primary
    /\ \E path \in ProbableSet \ ExactSet : UnderBin(path)

\* C16: with no exact match and several probable matches, the primary is
\* the one probable match with a component named bin when there is exactly
\* one, and otherwise a probable match than which no probable match is
\* shorter.
C16_BinNarrowing ==
    Located =>
        LET probable == ProbableSet
            underBin == {path \in probable : UnderBin(path)}
        IN (ExactSet = {} /\ Cardinality(probable) > 1) =>
              /\ fbOut.status = "ok"
              /\ IF Cardinality(underBin) = 1
                 THEN fbOut.primary \in underBin
                 ELSE /\ fbOut.primary \in probable
                      /\ \A path \in probable : PathLen(fbOut.primary) <= PathLen(path)

\* The one probable match under bin is the primary although another
\* probable match has a shorter path.
C16_Witness ==
    /\ Located /\ fbOut.status = "ok"
    /\ ExactSet = {}
    /\ {path \in ProbableSet : UnderBin(path)} = {fbOut.primary}
    /\ \E path \in ProbableSet : PathLen(path) < PathLen(fbOut.primary)

\* Every probable match has a component named bin, the root's being one,
\* and the shortest is the primary although it was not walked first.
C16_WitnessShortest ==
    /\ Located /\ fbOut.status = "ok"
    /\ ExactSet = {}
    /\ Cardinality({path \in ProbableSet : UnderBin(path)}) > 1
    /\ \A path \in ProbableSet \ {fbOut.primary} : PathLen(fbOut.primary) < PathLen(path)
    /\ fbRoot \o fbWalk[1].path \in ProbableSet \ {fbOut.primary}


\* What the claims on the install pipeline speak of.
EarlyFailures ==
    {"ResolveFailed", "DownloadFailed", "ExtractFailed", "LocateFailed", "RunFailed",
     "NoInstallDir", "MkdirFailed", "SudoMkdirFailed", "NoFilename", "CopyFailed",
     "SudoMoveFailed"}
NamedBinaries == {name \in {prep.path} \cup SeqRange(prep.extra_paths) : name # NoName}
AllCopied ==
    /\ prep.path # NoName
    /\ rest = <<>>
    /\ installed_bins # <<>>
    /\ installed_bins[1] = DestOf(prep.path)
    /\ \A name \in NamedBinaries :
          /\ DestOf(name) \in SeqRange(installed_bins)
          /\ disk[DestOf(name)] = "file"
HelperPcs == {"mkdir_sudo", "primary_sudo", "extra_sudo"}

\* C17: the ledger file is touched only by an install, in its record step,
\* when the primary and every extra with a file name are in the install
\* directory, and nothing but the return follows that step; an invocation
\* that has not come to the record step, one that failed before it, and
\* every download_to_dir, run, release_info and list, has the ledger as it
\* found it.
C17_LedgerWrittenLast ==
    /\ [](ipc \notin {"record", "recording", "done"} => file = file0)
    /\ [](ipc = "done" /\ (iop # "install" \/ iresult \in EarlyFailures) => file = file0)
    /\ [][(file' # file => iop = "install" /\ ipc \in {"record", "recording"} /\ AllCopied)]_vars
    /\ [][(ipc \in {"record", "recording"} =>
             /\ ipc' \in {"recording", "done"}
             /\ disk' = disk /\ installed_bins' = installed_bins)]_vars

\* An install of a payload and one extra has returned Ok: both are in the
\* install directory and the ledger, changed, holds the project at the
\* release's tag with both paths.
C17_Witness ==
    /\ iop = "install" /\ ipc = "done" /\ iresult = "Ok"
    /\ Len(installed_bins) = 2
    /\ \A n \in 1..2 : disk[installed_bins[n]] = "file"
    /\ file # file0
    /\ Ledger(file).ok
    /\ InstallRepo \in DOMAIN Ledger(file).val
    /\ Ledger(file).val[InstallRepo].version = ReleaseTag
    /\ all_bins(Ledger(file).val[InstallRepo]) = installed_bins

\* A download_to_dir has copied a payload and an extra and returned Ok with
\* the ledger as it was.
C17_WitnessDownload ==
    /\ iop = "download" /\ ipc = "done" /\ iresult = "Ok"
    /\ Len(installed_bins) = 2
    /\ file = file0

\* C18: the privileged helper runs only in an install, only for a direct
\* attempt that failed with PermissionDenied, and at most once for each
\* attempt; a direct attempt that failed otherwise ends the invocation, and
\* so does a helper that did not succeed: from the helper's step the
\* pipeline goes on to the next operation or returns a failure, never back.
C18_HelperOncePerOperation ==
    /\ [](\A i \in 1..Len(helperLog) :
             /\ helperLog[i].err = "PermissionDenied"
             /\ \A j \in 1..Len(helperLog) : helperLog[i].id = helperLog[j].id => i = j)
    /\ [][(helperLog' # helperLog =>
             /\ iop = "install"
             /\ ipc \in HelperPcs
             /\ att.err = "PermissionDenied"
             /\ att.id = nops
             /\ helperLog' = Append(helperLog, att))]_vars
    /\ [][(att' # att /\ att'.err = "Other" =>
             ipc' = "done" /\ iresult' \in {"MkdirFailed", "CopyFailed"})]_vars
    /\ [][(ipc \in HelperPcs /\ ipc' # ipc =>
             /\ nops' = nops
             /\ \/ ipc' = "done" /\ iresult' \in {"SudoMkdirFailed", "SudoMoveFailed"}
                \/ ipc = "mkdir_sudo" /\ ipc' = "primary"
                \/ ipc = "primary_sudo" /\ ipc' = "extras" /\ installed_bins' = <<att.dest>>
                \/ /\ ipc = "extra_sudo" /\ ipc' = "extras"
                   /\ installed_bins' = Append(installed_bins, att.dest)
                   /\ rest' = Tail(rest))]_vars

\* An install whose directory creation and whose copy of the payload were
\* both denied has returned Ok, the helper having run once for each.
C18_Witness ==
    /\ iop = "install" /\ ipc = "done" /\ iresult = "Ok"
    /\ Len(helperLog) = 2
    /\ helperLog[1].kind = "mkdir" /\ helperLog[2].kind = "copy"
    /\ helperLog[1].id # helperLog[2].id

\* The helper ran for a denied copy and failed, and the install ended there
\* with the ledger as it was.
C18_WitnessHelperFails ==
    /\ iop = "install" /\ ipc = "done" /\ iresult = "SudoMoveFailed"
    /\ helperLog # <<>>
    /\ helperLog[Len(helperLog)] = att
    /\ file = file0


\* What the claims on a single gzipped file speak of.
PlainGzipName(name) ==
    /\ ends_with(to_lowercase(name), <<".", "g", "z">>)
    /\ ~ends_with(to_lowercase(name), <<".", "t", "a", "r", ".", "g", "z">>)
SuffixStripped(name) == SubSeq(name, 1, Len(name) - 3)
Extracted == gzPc = "done" /\ gzScratch # <<>> /\ gzOut # FoundErr("write")
ScratchFile == Root_tmp \o <<gzDest>>

\* C19: when the extraction of an asset with a plain gzip name has
\* succeeded, the scratch directory holds exactly one file, named as the
\* asset without its .gz suffix.
C19_OneFileNamedWithoutSuffix ==
    PlainGzipName(gzAsset) /\ Extracted =>
        gzScratch = <<Entry(<<SuffixStripped(gzAsset)>>, "file")>>

\* C20: once the file is decompressed, the result is that file as primary
\* with no extras and the locator has not run when the file's name is the
\* project's name exactly; in every other case the locator has run and the
\* result is what find_binaries gives for the scratch directory, which for
\* its one file is again that file with no extras.
C20_FastPathOrLocator ==
    Extracted =>
        /\ gzOut = FoundOk(ScratchFile, <<>>)
        /\ IF gzDest = gzRepo
           THEN ~gzLocated
           ELSE /\ gzLocated
                /\ gzOut = find_binaries(WalkDir(Root_tmp, gzScratch), gzRepo)

\* The asset yoink.gz of the project yoink: the file yoink is the primary
\* and the locator has not run.
C20_Witness ==
    /\ Extracted
    /\ gzAsset = Gz_yoink_gz /\ gzRepo = Repo_yoink
    /\ gzDest = gzRepo
    /\ gzOut.status = "ok" /\ gzOut.primary = ScratchFile /\ gzOut.extras = <<>>
    /\ ~gzLocated

\* The asset tool.gz of the project Tool: the names differ by case alone,
\* and the locator has run.
C20_WitnessLocator ==
    /\ Extracted
    /\ gzAsset = Gz_tool_gz /\ gzRepo = Repo_Tool
    /\ to_lowercase(gzDest) = to_lowercase(gzRepo) /\ gzDest # gzRepo
    /\ gzLocated
    /\ gzOut.status = "ok" /\ gzOut.primary = ScratchFile


\* C21: the list of installed paths starts with the primary's destination
\* and holds no path twice; no copy is made to a destination already in the
\* list; and the bins an install has recorded are that list.
C21_PrimaryFirstNoDuplicates ==
    /\ [](installed_bins # <<>> =>
             /\ installed_bins[1] = DestOf(prep.path)
             /\ \A m, n \in 1..Len(installed_bins) :
                   installed_bins[m] = installed_bins[n] => m = n)
    /\ [][(att' # att /\ att'.kind = "copy" =>
             att'.dest \notin SeqRange(installed_bins))]_vars
    /\ [](iop = "install" /\ ipc = "done" /\ iresult = "Ok" =>
             /\ Ledger(file).ok
             /\ InstallRepo \in DOMAIN Ledger(file).val
             /\ all_bins(Ledger(file).val[InstallRepo]) = installed_bins)

\* An install whose extras name the payload's file again, and then another
\* file, has returned Ok with two paths, after one mkdir and two copies.
C21_Witness ==
    /\ iop = "install" /\ ipc = "done" /\ iresult = "Ok"
    /\ prep.path = "tool" /\ prep.extra_paths = <<"tool", "helper">>
    /\ installed_bins = <<DestOf("tool"), DestOf("helper")>>
    /\ nops = 3

\* A download_to_dir whose two extras have the same file name has returned
\* Ok with the payload and one of them.
C21_WitnessDownload ==
    /\ iop = "download" /\ ipc = "done" /\ iresult = "Ok"
    /\ prep.path = "tool" /\ prep.extra_paths = <<"helper", "helper">>
    /\ installed_bins = <<DestOf("tool"), DestOf("helper")>>


\* C22: a process that has returned from record, remove or load, however
\* it returned, holds neither the exclusive nor the shared lock; and a lock
\* is held only by a process between its lock call and its return.
C22_NoLockAfterReturn ==
    \A p \in Procs :
        /\ pc[p] = "done" => lockX # p /\ p \notin lockS
        /\ lockX = p \/ p \in lockS => pc[p] \notin {"idle", "lock", "done"}

\* A mutation has returned an I/O error after it truncated the ledger, and
\* the lock is free.
C22_Witness ==
    \E p \in Procs :
        /\ Mutation(p) /\ pc[p] = "done" /\ result[p] = "IoError"
        /\ committed # <<>> /\ file.content # committed
        /\ lockX = NoProc

\* A remove has returned the error of a file deletion, another process has
\* returned a parse error or an unknown key, and the lock is free.
C22_WitnessOtherExits ==
    \E p, q \in Procs :
        /\ pc[p] = "done" /\ result[p] = "RemoveFailed"
        /\ pc[q] = "done" /\ result[q] \in {"ParseError", "NotInstalled", "EmptyInstallSet"}
        /\ lockX = NoProc /\ lockS = {}


\* C26: a remove that has returned an error has deleted none of the files
\* recorded for its key, whichever path of the entry the failure was on.
C26_FailedRemoveDeletesNothing ==
    \A p \in Procs :
        pc[p] = "done" /\ inv[p].op = "remove" /\ result[p] # "Ok" => deleted[p] = {}


\* A result with its paths taken relative to the root they were found under.
RelativeTo(root, path) == SubSeq(path, Len(root) + 1, Len(path))
RelativeResult(out, root) ==
    [status |-> out.status,
     primary |-> RelativeTo(root, out.primary),
     extras |-> [n \in 1..Len(out.extras) |-> RelativeTo(root, out.extras[n])]]

\* C28: the tree found under the root of the run and the same tree, walked
\* in the same order, under the root /tmp/x give the same status, the same
\* relative primary and the same relative extras.
C28_SameChoiceUnderAnyRoot ==
    Located =>
        RelativeResult(fbOut, fbRoot)
            = RelativeResult(find_binaries(WalkDir(Root_tmp, fbWalk), fbRepo), Root_tmp)


\* The wording of an asset name: where a token stands in it, and whether a
\* token of the host stands somewhere outside every token of another
\* operating system.
NamedOses == {"macos", "linux", "windows"}
TokensOf(os) ==
    IF os = "macos" THEN SeqRange(OsTokens_macos)
    ELSE IF os = "linux" THEN SeqRange(OsTokens_linux)
    ELSE SeqRange(OsTokens_windows)
ForeignTokens == UNION {TokensOf(os) : os \in NamedOses \ {hostOs}}
StandsAt(str, token, i) ==
    /\ i \in 1..(Len(str) - Len(token) + 1)
    /\ SubSeq(str, i, i + Len(token) - 1) = token
NamesForeignOs(str) == \E u \in ForeignTokens : \E j \in 1..Len(str) : StandsAt(str, u, j)
WrittenForHost(str) ==
    \E t \in TokensOf(hostOs) : \E i \in 1..Len(str) :
        /\ StandsAt(str, t, i)
        /\ ~\E u \in ForeignTokens : \E j \in 1..i :
               StandsAt(str, u, j) /\ i + Len(t) <= j + Len(u)
OsBonus(name) == asset_score(name, os_tokens, <<>>) - asset_score(name, <<>>, <<>>)

\* C29: on a macos, linux or windows host, an asset whose name has a token
\* of another operating system and no token of the host outside such a
\* token gets no OS bonus.
C29_NoBonusForForeignWording ==
    picked # NotPicked /\ hostOs \in NamedOses =>
        \A n \in 1..Len(assets) :
            LET lower == to_lowercase(assets[n].name) IN
            NamesForeignOs(lower) /\ ~WrittenForHost(lower) => OsBonus(assets[n].name) = 0


\* What the claims on sequences of operations speak of.
Tracked == UNION {EntryPaths(oLedger[k]) : k \in DOMAIN oLedger}

\* C24: no path is in the entries of two project keys, and an uninstall
\* deletes no file that an entry of the ledger still lists.
C24_NoPathOfTwoProjects ==
    /\ \A k1, k2 \in DOMAIN oLedger :
          k1 # k2 => EntryPaths(oLedger[k1]) \cap EntryPaths(oLedger[k2]) = {}
    /\ oLast.op = "uninstall" => oLast.deleted \cap Tracked = {}

\* C27: every file an install copied into the install directory and that
\* is still there is listed in some entry of the ledger.
C27_NoUntrackedFile ==
    \A path \in oCopied : oDisk[path] = "file" => path \in Tracked

=============================================================================
